---------------------------- MODULE Spec2Model ----------------------------
(***************************************************************************)
(* Model of the orchestration engine of mirror_paper_to_live.py:           *)
(* PaperEngine (positions, loss streaks, freeze/arm, global reset),        *)
(* LiveEngine (open_live, reconcile_position, close_live_market,           *)
(* watch_until_close) against a venue, and the Orchestrator's tick         *)
(* handler, paper-timeout sweeper and universe refresh.                    *)
(*                                                                         *)
(* Python dicts are functions whose DOMAIN is the set of keys.  Prices     *)
(* are integers; percentages are compared by cross-multiplication, so no   *)
(* division is needed.  Every await of the code is a step boundary: the    *)
(* statements between two awaits form one action.                          *)
(***************************************************************************)
EXTENDS Integers, FiniteSets, Sequences, TLC

(***************************************************************************)
(* Bounds of the model.                                                    *)
(***************************************************************************)
MaxTicks == 4
MaxTime == 2
MaxCalls == 3

(***************************************************************************)
(* Configuration (class Config).  TP_PCT, SL_PCT and MAX_DEVIATION_PCT are *)
(* in tenths of a percent (1.0 %, 0.8 %, 0.5 %).                           *)
(***************************************************************************)
TP_PCT == 10
SL_PCT == 8
MAX_DEVIATION_PCT == 5
LOSS_STREAK_TO_ARM == 2
LIVE_MAX_POSITIONS == 1
MAX_HOLDING_SEC == 2
WATCH_HARD_TIMEOUT_SEC == 1
WATCH_PROFIT_TIMEOUT_SEC == 1
LIVE_NOTIONAL_USD == 5
LIVE_LEVERAGE == 2
PAPER_ENABLED == TRUE

Symbols == {"A", "B"}
Prices == {99, 100, 101}
Sides == {"LONG", "SHORT"}
None == "None"
Sigs == Sides \cup {None}

(***************************************************************************)
(* dict helpers                                                            *)
(***************************************************************************)
Get(d, k, default) == IF k \in DOMAIN d THEN d[k] ELSE default
Put(d, k, v) == [x \in DOMAIN d \cup {k} |-> IF x = k THEN v ELSE d[x]]
Pop(d, k) == [x \in DOMAIN d \ {k} |-> d[x]]
EmptyDict == [x \in {} |-> 0]
Abs(x) == IF x < 0 THEN -x ELSE x

VARIABLES
  \* PaperEngine
  positions, streak_losses, freeze_paper_entries, freeze_streak_updates,
  trigger_symbol, last_trade_ts, trade_counts_hour,
  \* the last CLOSE row PaperEngine appended to PAPER_LOG_PATH
  paper_log,
  \* Orchestrator
  active_symbols, last_price, stop_event,
  \* Config: the fields the specifications differ in
  LIVE_ENABLED, COOLDOWN_AFTER_TRADE_SEC, MAX_TRADES_PER_HOUR,
  WS_MODE, WS_BASE,
  SYMBOL_MODE, WHITELIST, BLACKLIST, SKIP_SYMBOLS, TARGET_SYMBOLS,
  AUTO_TOP_N, WHITELIST_PRIORITY,
  \* the list build_universe returned last, and the activeSymbols
  \* build_universe_once returned last
  universe_syms, activeSymbols,
  \* SignalEngine.ticks, Config.BREAKOUT_BUFFER_PCT, and the last call of
  \* signal_side: its arguments, the impulse return and the side returned
  ticks, BREAKOUT_BUFFER_PCT, signal,
  \* Orchestrator: the ws stream
  _ws, _ws_close_sent, ws_reconnect_requested, last_ws_msg_ts,
  \* ws_loop: where the task is suspended and when its sleep ends; the
  \* handlers it has started and not seen return, and those that returned
  ws_pc, ws_wake, handling, handled,
  \* ws_watchdog_loop: its local stale_hits and when its sleep ends
  stale_hits, wd_wake,
  \* the venue's end of the socket: its state, the frames it has sent that
  \* ws.recv() has not returned yet, and how many it has sent
  sock, inbox, nSent,
  \* reconnect requests and socket closes since last_ws_msg_ts was refreshed
  nReq, nClose,
  \* the ws task: where the tick handler (or a LiveEngine method) is
  \* suspended, and its local variables
  pc, lv,
  \* LiveEngine and the venue it talks to
  open_positions, venue_pos, venue_orders, EMERGENCY_CLOSE_ON_HARD_TIMEOUT,
  \* clock and history
  now, nTicks, nCalls, nResets, nLiveOpened, nWatchReturned, ret

paperVars == <<positions, streak_losses, freeze_paper_entries,
               freeze_streak_updates, trigger_symbol, last_trade_ts,
               trade_counts_hour, paper_log>>
cfgVars == <<LIVE_ENABLED, COOLDOWN_AFTER_TRADE_SEC, MAX_TRADES_PER_HOUR,
             WS_MODE, WS_BASE, SYMBOL_MODE, WHITELIST, BLACKLIST,
             SKIP_SYMBOLS, TARGET_SYMBOLS, AUTO_TOP_N, WHITELIST_PRIORITY>>
uniVars == <<universe_syms, activeSymbols>>
sigVars == <<ticks, BREAKOUT_BUFFER_PCT, signal>>
wsVars == <<_ws, _ws_close_sent, ws_reconnect_requested, last_ws_msg_ts,
            ws_pc, ws_wake, handling, handled, stale_hits, wd_wake,
            sock, inbox, nSent, nReq, nClose>>
orchVars == <<active_symbols, last_price, stop_event, cfgVars, wsVars,
              uniVars, sigVars>>
taskVars == <<pc, lv>>
liveVars == <<open_positions, venue_pos, venue_orders,
              EMERGENCY_CLOSE_ON_HARD_TIMEOUT>>
histVars == <<nTicks, nCalls, nResets, nLiveOpened, nWatchReturned, ret>>
vars == <<paperVars, orchVars, taskVars, liveVars, histVars, now>>

(***************************************************************************)
(* PaperEngine.  The engine's fields travel as one record P through the    *)
(* operators below, which are the methods of the class.                    *)
(***************************************************************************)
Paper == [positions |-> positions, streak_losses |-> streak_losses,
          freeze_paper_entries |-> freeze_paper_entries,
          freeze_streak_updates |-> freeze_streak_updates,
          trigger_symbol |-> trigger_symbol,
          last_trade_ts |-> last_trade_ts,
          trade_counts_hour |-> trade_counts_hour, paper_log |-> paper_log]

SetPaper(P) ==
  /\ positions' = P.positions
  /\ streak_losses' = P.streak_losses
  /\ freeze_paper_entries' = P.freeze_paper_entries
  /\ freeze_streak_updates' = P.freeze_streak_updates
  /\ trigger_symbol' = P.trigger_symbol
  /\ last_trade_ts' = P.last_trade_ts
  /\ trade_counts_hour' = P.trade_counts_hour
  /\ paper_log' = P.paper_log

\* _can_open without the test of lines 577-578 (symbol in positions): the
\* guard C17 rules out
_can_open_held(P, symbol) == ~P.freeze_paper_entries

\* the window of line 583 (cutoff = now - 3600), in seconds
HOUR == 3600

\* lines 583-585: the opens older than the cutoff leave the deque
prune(deque, t) == SelectSeq(deque, LAMBDA ts : ts >= t - HOUR)

\* _can_open at time.time() = now
_can_open(P, symbol) ==
  /\ ~P.freeze_paper_entries
  /\ symbol \notin DOMAIN P.positions
  /\ ~(now - Get(P.last_trade_ts, symbol, 0) < COOLDOWN_AFTER_TRADE_SEC)
  /\ ~(Len(prune(P.trade_counts_hour, now)) >= MAX_TRADES_PER_HOUR)

\* what a call of _can_open leaves behind: the deque pruned, when the call
\* gets as far as line 584
_can_open_effect(P, symbol) ==
  IF /\ ~P.freeze_paper_entries
     /\ symbol \notin DOMAIN P.positions
     /\ ~(now - Get(P.last_trade_ts, symbol, 0) < COOLDOWN_AFTER_TRADE_SEC)
  THEN [P EXCEPT !.trade_counts_hour = prune(@, now)]
  ELSE P

\* tp and sl are kept as the numerators of price * (1000 +- pct) / 1000.
Position(symbol, side, price, t) ==
  [side |-> side, entry |-> price,
   tp |-> IF side = "LONG" THEN price * (1000 + TP_PCT) ELSE price * (1000 - TP_PCT),
   sl |-> IF side = "LONG" THEN price * (1000 - SL_PCT) ELSE price * (1000 + SL_PCT),
   opened_ts |-> t]

\* PaperEngine.open.  last_trade_ts and trade_counts_hour are read by
\* _can_open alone (lines 580-586).  Under a Config with which that read
\* cannot tell two values apart (a cooldown of 0; a limit above the opens a
\* run of MaxTicks ticks can make) the field is left as it is, so that
\* states which differ only in it are one state.
open(P, symbol, side, price, t) ==
  [P EXCEPT !.positions = Put(@, symbol, Position(symbol, side, price, t)),
            !.last_trade_ts =
               IF COOLDOWN_AFTER_TRADE_SEC > 0 THEN Put(@, symbol, t) ELSE @,
            !.trade_counts_hour =
               IF MAX_TRADES_PER_HOUR <= MaxTicks THEN Append(@, t) ELSE @]

\* the CLOSE row of lines 628-640: symbol, reason and the sign of the pnl
NoRow == [symbol |-> None, reason |-> None, pnl |-> 0]
CloseRow(symbol, reason, net) ==
  [symbol |-> symbol, reason |-> reason,
   pnl |-> IF net > 0 THEN 1 ELSE IF net < 0 THEN -1 ELSE 0]

\* the sign of _pnl_pct (and of net = TRADE_NOTIONAL_USD * pnl_pct / 100)
_pnl_pct(pos, exit_price) ==
  IF pos.side = "LONG" THEN exit_price - pos.entry ELSE pos.entry - exit_price

\* close with a TP that leaves the streak as it is (line 646 reading
\* is_loss = None): the close C18 rules out
close_tp_keeps_streak(P, symbol, exit_price, reason) ==
  IF symbol \notin DOMAIN P.positions THEN P
  ELSE
    LET pos == P.positions[symbol]
        net == _pnl_pct(pos, exit_price)
        P1 == [P EXCEPT !.positions = Pop(@, symbol),
                        !.paper_log = CloseRow(symbol, reason, net)]
        prev == Get(P.streak_losses, symbol, 0)
        streak == IF reason = "SL" THEN prev + 1
                  ELSE IF reason = "TP" THEN prev
                  ELSE IF net < 0 THEN prev + 1 ELSE 0
        P2 == [P1 EXCEPT !.streak_losses = Put(@, symbol, streak)]
    IN IF P.freeze_streak_updates THEN P1
       ELSE IF (~P.freeze_paper_entries) /\ streak >= LOSS_STREAK_TO_ARM
            THEN [P2 EXCEPT !.freeze_paper_entries = TRUE,
                            !.freeze_streak_updates = TRUE,
                            !.trigger_symbol = symbol]
            ELSE P2

\* close with lines 648-650 reading `net <= 0`: the close C19 rules out
close_counting_flat_timeout(P, symbol, exit_price, reason) ==
  IF symbol \notin DOMAIN P.positions THEN P
  ELSE
    LET pos == P.positions[symbol]
        net == _pnl_pct(pos, exit_price)
        P1 == [P EXCEPT !.positions = Pop(@, symbol),
                        !.paper_log = CloseRow(symbol, reason, net)]
        prev == Get(P.streak_losses, symbol, 0)
        streak == IF reason = "SL" THEN prev + 1
                  ELSE IF reason = "TP" THEN 0
                  ELSE IF net <= 0 THEN prev + 1 ELSE 0
        P2 == [P1 EXCEPT !.streak_losses = Put(@, symbol, streak)]
    IN IF P.freeze_streak_updates THEN P1
       ELSE IF (~P.freeze_paper_entries) /\ streak >= LOSS_STREAK_TO_ARM
            THEN [P2 EXCEPT !.freeze_paper_entries = TRUE,
                            !.freeze_streak_updates = TRUE,
                            !.trigger_symbol = symbol]
            ELSE P2

\* close without the test of line 643 (freeze_streak_updates): the close
\* C20 rules out
close_ignoring_streak_freeze(P, symbol, exit_price, reason) ==
  IF symbol \notin DOMAIN P.positions THEN P
  ELSE
    LET pos == P.positions[symbol]
        net == _pnl_pct(pos, exit_price)
        P1 == [P EXCEPT !.positions = Pop(@, symbol),
                        !.paper_log = CloseRow(symbol, reason, net)]
        prev == Get(P.streak_losses, symbol, 0)
        streak == IF reason = "SL" THEN prev + 1
                  ELSE IF reason = "TP" THEN 0
                  ELSE IF net < 0 THEN prev + 1 ELSE 0
        P2 == [P1 EXCEPT !.streak_losses = Put(@, symbol, streak)]
    IN IF FALSE THEN P1
       ELSE IF (~P.freeze_paper_entries) /\ streak >= LOSS_STREAK_TO_ARM
            THEN [P2 EXCEPT !.freeze_paper_entries = TRUE,
                            !.freeze_streak_updates = TRUE,
                            !.trigger_symbol = symbol]
            ELSE P2

\* close with line 661 reading `streak > LOSS_STREAK_TO_ARM`: the close C3
\* rules out
close_arming_late(P, symbol, exit_price, reason) ==
  IF symbol \notin DOMAIN P.positions THEN P
  ELSE
    LET pos == P.positions[symbol]
        net == _pnl_pct(pos, exit_price)
        P1 == [P EXCEPT !.positions = Pop(@, symbol),
                        !.paper_log = CloseRow(symbol, reason, net)]
        is_loss == IF reason = "SL" THEN TRUE
                   ELSE IF reason = "TP" THEN FALSE
                   ELSE net < 0
        streak == IF is_loss THEN Get(P.streak_losses, symbol, 0) + 1 ELSE 0
        P2 == [P1 EXCEPT !.streak_losses = Put(@, symbol, streak)]
    IN IF P.freeze_streak_updates THEN P1
       ELSE IF (~P.freeze_paper_entries) /\ streak > LOSS_STREAK_TO_ARM
            THEN [P2 EXCEPT !.freeze_paper_entries = TRUE,
                            !.freeze_streak_updates = TRUE,
                            !.trigger_symbol = symbol]
            ELSE P2

\* close without the return of lines 620-622 (no position): a symbol that
\* holds nothing is closed at pnl 0, row and streak update included; the
\* close C22 rules out
close_absent_position(P, symbol, exit_price, reason) ==
  LET held == symbol \in DOMAIN P.positions
      net == IF held THEN _pnl_pct(P.positions[symbol], exit_price) ELSE 0
      P1 == [P EXCEPT !.positions = Pop(@, symbol),
                      !.paper_log = CloseRow(symbol, reason, net)]
      is_loss == IF reason = "SL" THEN TRUE
                 ELSE IF reason = "TP" THEN FALSE
                 ELSE net < 0
      streak == IF is_loss THEN Get(P.streak_losses, symbol, 0) + 1 ELSE 0
      P2 == [P1 EXCEPT !.streak_losses = Put(@, symbol, streak)]
  IN IF P.freeze_streak_updates THEN P1
     ELSE IF (~P.freeze_paper_entries) /\ streak >= LOSS_STREAK_TO_ARM
          THEN [P2 EXCEPT !.freeze_paper_entries = TRUE,
                          !.freeze_streak_updates = TRUE,
                          !.trigger_symbol = symbol]
          ELSE P2

\* close that arms the freeze before line 622 has removed the position, and
\* leaves it held: the close C40 rules out
close_arming_with_position(P, symbol, exit_price, reason) ==
  IF symbol \notin DOMAIN P.positions THEN P
  ELSE
    LET pos == P.positions[symbol]
        net == _pnl_pct(pos, exit_price)
        P1 == [P EXCEPT !.positions = Pop(@, symbol),
                        !.paper_log = CloseRow(symbol, reason, net)]
        is_loss == IF reason = "SL" THEN TRUE
                   ELSE IF reason = "TP" THEN FALSE
                   ELSE net < 0
        streak == IF is_loss THEN Get(P.streak_losses, symbol, 0) + 1 ELSE 0
        P2 == [P1 EXCEPT !.streak_losses = Put(@, symbol, streak)]
    IN IF P.freeze_streak_updates THEN P1
       ELSE IF (~P.freeze_paper_entries) /\ streak >= LOSS_STREAK_TO_ARM
            THEN [P2 EXCEPT !.positions = P.positions,
                            !.freeze_paper_entries = TRUE,
                            !.freeze_streak_updates = TRUE,
                            !.trigger_symbol = symbol]
            ELSE P2

\* PaperEngine.close, lines 619-667
close(P, symbol, exit_price, reason) ==
  IF symbol \notin DOMAIN P.positions THEN P
  ELSE
    LET pos == P.positions[symbol]
        net == _pnl_pct(pos, exit_price)
        P1 == [P EXCEPT !.positions = Pop(@, symbol),
                        !.paper_log = CloseRow(symbol, reason, net)]
        is_loss == IF reason = "SL" THEN TRUE
                   ELSE IF reason = "TP" THEN FALSE
                   ELSE net < 0
        streak == IF is_loss THEN Get(P.streak_losses, symbol, 0) + 1 ELSE 0
        P2 == [P1 EXCEPT !.streak_losses = Put(@, symbol, streak)]
    IN IF P.freeze_streak_updates THEN P1
       ELSE IF (~P.freeze_paper_entries) /\ streak >= LOSS_STREAK_TO_ARM
            THEN [P2 EXCEPT !.freeze_paper_entries = TRUE,
                            !.freeze_streak_updates = TRUE,
                            !.trigger_symbol = symbol]
            ELSE P2

\* maybe_close_on_price with the holding age tested before the prices:
\* the order C30 rules out
maybe_close_age_first(P, symbol, price, t) ==
  IF symbol \notin DOMAIN P.positions THEN P
  ELSE
    LET pos == P.positions[symbol]
        hit_tp == IF pos.side = "LONG" THEN price * 1000 >= pos.tp
                  ELSE price * 1000 <= pos.tp
        hit_sl == IF pos.side = "LONG" THEN price * 1000 <= pos.sl
                  ELSE price * 1000 >= pos.sl
    IN IF MAX_HOLDING_SEC > 0 /\ (t - pos.opened_ts) >= MAX_HOLDING_SEC
       THEN close(P, symbol, price, "TIMEOUT")
       ELSE IF hit_tp THEN close(P, symbol, price, "TP")
       ELSE IF hit_sl THEN close(P, symbol, price, "SL")
       ELSE P

\* PaperEngine.maybe_close_on_price, lines 669-687, at time.time() = t
maybe_close_on_price(P, symbol, price, t) ==
  IF symbol \notin DOMAIN P.positions THEN P
  ELSE
    LET pos == P.positions[symbol]
        hit_tp == IF pos.side = "LONG" THEN price * 1000 >= pos.tp
                  ELSE price * 1000 <= pos.tp
        hit_sl == IF pos.side = "LONG" THEN price * 1000 <= pos.sl
                  ELSE price * 1000 >= pos.sl
    IN IF hit_tp THEN close(P, symbol, price, "TP")
       ELSE IF hit_sl THEN close(P, symbol, price, "SL")
       ELSE IF MAX_HOLDING_SEC > 0 /\ (t - pos.opened_ts) >= MAX_HOLDING_SEC
            THEN close(P, symbol, price, "TIMEOUT")
            ELSE P

\* timed_out_symbols with > where line 694 has >=: a position whose age
\* has just reached MAX_HOLDING_SEC is not reported; the sweep C21 rules out
timed_out_strictly_older(P, t) ==
  IF MAX_HOLDING_SEC <= 0 THEN {}
  ELSE {sym \in DOMAIN P.positions :
          (t - P.positions[sym].opened_ts) > MAX_HOLDING_SEC}

\* timed_out_symbols without the age test of line 694: every held symbol
\* is reported; the snapshot C38 rules out
timed_out_all_held(P, t) ==
  IF MAX_HOLDING_SEC <= 0 THEN {}
  ELSE DOMAIN P.positions

\* PaperEngine.timed_out_symbols, lines 689-696
timed_out_symbols(P, t) ==
  IF MAX_HOLDING_SEC <= 0 THEN {}
  ELSE {sym \in DOMAIN P.positions :
          (t - P.positions[sym].opened_ts) >= MAX_HOLDING_SEC}

\* reset_all_streaks without line 705 (freeze_streak_updates = False): the
\* reset C5 rules out
reset_keeping_streak_freeze(P, active) ==
  [P EXCEPT !.streak_losses = [s \in DOMAIN P.streak_losses \cup active |-> 0],
            !.freeze_paper_entries = FALSE,
            !.trigger_symbol = None]

\* reset_all_streaks without line 707 (trigger_symbol = None): the reset
\* C39 rules out
reset_keeping_trigger(P, active) ==
  [P EXCEPT !.streak_losses = [s \in DOMAIN P.streak_losses \cup active |-> 0],
            !.freeze_paper_entries = FALSE,
            !.freeze_streak_updates = FALSE]

\* PaperEngine.reset_all_streaks, lines 698-708
reset_all_streaks(P, active) ==
  [P EXCEPT !.streak_losses = [s \in DOMAIN P.streak_losses \cup active |-> 0],
            !.freeze_paper_entries = FALSE,
            !.freeze_streak_updates = FALSE,
            !.trigger_symbol = None]


(***************************************************************************)
(* The venue (exchange) and the gateway calls the engine makes.  A gateway *)
(* call either raises or answers from the venue's state.  Quantities are   *)
(* in units of stepSize.                                                   *)
(***************************************************************************)
Flat == [amt |-> 0, entry |-> 0]
NoLocals == [symbol |-> None, side |-> None, price |-> 0, qty |-> 0,
             t0 |-> 0, cont |-> None, reason |-> None,
             entry_order_id |-> "", tp_oid |-> "", sl_oid |-> "",
             order_id_exit |-> ""]
NoRet == [op |-> None, ok |-> FALSE, symbol |-> None, why |-> None,
          tail |-> FALSE, order_id_exit |-> ""]

\* 1 / stepSize of the LOT_SIZE filter: stepSize = 0.05 for every symbol.
StepSizeInv == 20
\* minQty of the LOT_SIZE filter, in steps.
MinQtySteps(symbol) == IF symbol = "A" THEN 1 ELSE 2

\* minNotional of the MIN_NOTIONAL / NOTIONAL filter, in USD (lines 391-394);
\* open_live never reads it
MinNotional == 15

\* _round_step(LIVE_NOTIONAL_USD * LIVE_LEVERAGE / last_price, step), in steps
LiveQty(px) ==
  (LIVE_NOTIONAL_USD * LIVE_LEVERAGE * StepSizeInv) \div px

\* The venue's effect of a filled MARKET order of qty steps.
VenueFill(vp, symbol, order_side, qty, price, reduce_only) ==
  LET old == vp[symbol].amt
      signed == IF order_side = "BUY" THEN qty ELSE -qty
      new == IF reduce_only
             THEN (IF old > 0 /\ signed < 0 THEN (IF old + signed < 0 THEN 0 ELSE old + signed)
                   ELSE IF old < 0 /\ signed > 0 THEN (IF old + signed > 0 THEN 0 ELSE old + signed)
                   ELSE old)
             ELSE old + signed
  IN [vp EXCEPT ![symbol] =
        IF new = 0 THEN Flat
        ELSE [amt |-> new, entry |-> IF old = 0 THEN price ELSE @.entry]]

\* reconcile_position without the pop of line 828: the reconciliation C15
\* rules out
reconcile_keeping_flat(op, symbol, resp) ==
  IF resp.raise \/ Abs(resp.amt) = 0 THEN op
  ELSE Put(op, symbol,
           [side |-> IF resp.amt > 0 THEN "LONG" ELSE "SHORT",
            qty |-> Abs(resp.amt),
            entry |-> IF resp.entry > 0 THEN resp.entry ELSE 0,
            order_id_entry |-> IF symbol \in DOMAIN op THEN op[symbol].order_id_entry ELSE "",
            tp_order_id |-> "", sl_order_id |-> ""])

\* LiveEngine.reconcile_position: resp.raise when position_risk raised or
\* answered something that is no position record, else resp is the venue's
\* record.  entry = 0 stands for the code's entry = None.
reconcile_position(op, symbol, resp) ==
  IF resp.raise THEN op
  ELSE IF Abs(resp.amt) = 0 THEN Pop(op, symbol)
  ELSE Put(op, symbol,
           [side |-> IF resp.amt > 0 THEN "LONG" ELSE "SHORT",
            qty |-> Abs(resp.amt),
            entry |-> IF resp.entry > 0 THEN resp.entry ELSE 0,
            order_id_entry |-> IF symbol \in DOMAIN op THEN op[symbol].order_id_entry ELSE "",
            tp_order_id |-> "", sl_order_id |-> ""])

PositionRisk(symbol, fails) ==
  [raise |-> fails, amt |-> venue_pos[symbol].amt, entry |-> venue_pos[symbol].entry]

(***************************************************************************)
(* Orchestrator._handle_trade_tick, up to its first await.                 *)
(***************************************************************************)
\* route without the test of line 1290 (symbol != trigger_symbol): the
\* handler C2 rules out
route_any_symbol(P, symbol, sig) ==
  IF sig = None THEN "return"
  ELSE IF ~P.freeze_paper_entries
       THEN (IF PAPER_ENABLED /\ _can_open(P, symbol) THEN "open" ELSE "return")
  ELSE IF symbol \in DOMAIN P.positions THEN "return"
  ELSE "live"

\* route without the tests of lines 1283 and 577 (freeze_paper_entries): the
\* handler C4 rules out
route_ignoring_freeze(P, symbol, sig) ==
  IF sig = None THEN "return"
  ELSE IF PAPER_ENABLED /\ symbol \notin DOMAIN P.positions THEN "open"
  ELSE "return"

\* Lines 1280-1293: what the handler does with the signal after the
\* close-on-price: "return", "open" (paper) or "live" (deviation guard on).
route(P, symbol, sig) ==
  IF sig = None THEN "return"
  ELSE IF ~P.freeze_paper_entries
       THEN (IF PAPER_ENABLED /\ _can_open(P, symbol) THEN "open" ELSE "return")
  ELSE IF P.trigger_symbol = None \/ symbol # P.trigger_symbol THEN "return"
  ELSE IF symbol \in DOMAIN P.positions THEN "return"
  ELSE "live"

_handle_trade_tick(symbol, price, sig) ==
  /\ pc = "idle"
  /\ ~stop_event
  /\ nTicks < MaxTicks
  /\ symbol \in active_symbols
  /\ nTicks' = nTicks + 1
  /\ last_price' = Put(last_price, symbol, price)
  /\ LET P1 == maybe_close_on_price(Paper, symbol, price, now)
         r == route(P1, symbol, sig)
         P2 == IF sig # None /\ ~P1.freeze_paper_entries /\ PAPER_ENABLED
               THEN _can_open_effect(P1, symbol) ELSE P1
     IN /\ SetPaper(IF r = "open" THEN open(P2, symbol, sig, price, now) ELSE P2)
        /\ pc' = IF r = "live" THEN "dev" ELSE "idle"
        /\ lv' = IF r = "live"
                 THEN [NoLocals EXCEPT !.symbol = symbol, !.side = sig, !.price = price]
                 ELSE NoLocals
  /\ UNCHANGED <<active_symbols, stop_event, cfgVars, wsVars, uniVars, sigVars, liveVars, now,
                 nCalls, nResets, nLiveOpened, nWatchReturned, ret>>


(***************************************************************************)
(* The frozen branch of the handler: deviation guard, then live.           *)
(***************************************************************************)
\* what book_ticker may answer: it raises, or it gives (bid, ask)
Books == {[raise |-> TRUE, bid |-> 0, ask |-> 0],
          [raise |-> FALSE, bid |-> 0, ask |-> 0],
          [raise |-> FALSE, bid |-> 100, ask |-> 100]}

\* lines 1297-1302, with mid = (bid + ask) / 2 doubled on both sides
deviation_exceeds(price, bk) ==
  LET mid2 == IF bk.bid > 0 /\ bk.ask > 0 THEN bk.bid + bk.ask ELSE 2 * price
  IN /\ ~bk.raise
     /\ mid2 > 0
     /\ Abs(2 * price - mid2) * 1000 > MAX_DEVIATION_PCT * mid2

\* open_live up to its first await (lines 844-849)
open_live_begin(symbol, side, px) ==
  /\ lv' = [NoLocals EXCEPT !.symbol = symbol, !.side = side, !.price = px]
  /\ pc' = IF Cardinality(DOMAIN open_positions) >= LIVE_MAX_POSITIONS
           THEN "ol_cap" ELSE "ol_prep"

\* an except clause that resets where lines 1314-1316 only print and
\* return: the handler C8 rules out
reset_on_open_live_error(P, active) == reset_all_streaks(P, active)

\* lines 1314-1316: what the handler does to Paper when open_live raised
on_open_live_error(P, active) == P

\* open_live raises: the handler prints and returns
open_live_raise(why) ==
  /\ pc' = "idle"
  /\ lv' = NoLocals
  /\ ret' = [op |-> "open_live", ok |-> FALSE, symbol |-> lv.symbol,
             why |-> why, tail |-> FALSE, order_id_exit |-> ""]
  /\ SetPaper(on_open_live_error(Paper, active_symbols))

DeviationGuard ==
  /\ pc = "dev"
  /\ \E bk \in Books :
       IF deviation_exceeds(lv.price, bk)
       THEN /\ pc' = "idle" /\ lv' = NoLocals
            /\ UNCHANGED <<paperVars, nResets>>
       ELSE IF ~LIVE_ENABLED
       THEN /\ SetPaper(reset_all_streaks(Paper, active_symbols))
            /\ nResets' = nResets + 1
            /\ pc' = "idle" /\ lv' = NoLocals
       ELSE /\ open_live_begin(lv.symbol, lv.side, lv.price)
            /\ UNCHANGED <<paperVars, nResets>>
  /\ UNCHANGED <<orchVars, liveVars, now, nTicks, nCalls, nLiveOpened,
                 nWatchReturned, ret>>

(***************************************************************************)
(* LiveEngine.open_live, one action per await.                             *)
(***************************************************************************)
\* lines 844-847: reconcile when the local table is full, then the check
OpenLiveCapacity ==
  /\ pc = "ol_cap"
  /\ \E fails \in BOOLEAN :
       LET op1 == reconcile_position(open_positions, lv.symbol,
                                     PositionRisk(lv.symbol, fails))
       IN /\ open_positions' = op1
          /\ IF Cardinality(DOMAIN op1) >= LIVE_MAX_POSITIONS
             THEN open_live_raise("LiveCapacity")
             ELSE /\ pc' = "ol_prep"
                  /\ UNCHANGED <<lv, ret, paperVars>>
  /\ UNCHANGED <<orchVars, venue_pos, venue_orders,
                 EMERGENCY_CLOSE_ON_HARD_TIMEOUT, now, nTicks, nCalls, nResets,
                 nLiveOpened, nWatchReturned>>

\* lines 849-861: exchange_info, set_leverage, quantity and the minQty check
OpenLivePrepare ==
  /\ pc = "ol_prep"
  /\ \E fails \in BOOLEAN :
       IF fails THEN open_live_raise("Gateway")
       ELSE IF LiveQty(lv.price) < MinQtySteps(lv.symbol)
       THEN open_live_raise("MinQty")
       ELSE /\ pc' = "ol_order"
            /\ lv' = [lv EXCEPT !.qty = LiveQty(lv.price)]
            /\ UNCHANGED <<ret, paperVars>>
  /\ UNCHANGED <<orchVars, liveVars, now, nTicks, nCalls, nResets,
                 nLiveOpened, nWatchReturned>>

\* lines 863-880: the entry MARKET order and the optimistic local position
OpenLiveOrder ==
  /\ pc = "ol_order"
  /\ \E outcome \in {"raise", "filled", "unfilled"} :
       IF outcome = "raise"
       THEN /\ open_live_raise("Rejected")
            /\ UNCHANGED <<open_positions, venue_pos>>
       ELSE /\ venue_pos' =
                 IF outcome = "filled"
                 THEN VenueFill(venue_pos, lv.symbol,
                                IF lv.side = "LONG" THEN "BUY" ELSE "SELL",
                                lv.qty, lv.price, FALSE)
                 ELSE venue_pos
            /\ open_positions' =
                 Put(open_positions, lv.symbol,
                     [side |-> lv.side, qty |-> lv.qty, entry |-> lv.price,
                      order_id_entry |-> "E", tp_order_id |-> "",
                      sl_order_id |-> ""])
            /\ pc' = "ol_confirm"
            /\ UNCHANGED <<lv, ret, paperVars>>
  /\ UNCHANGED <<orchVars, venue_orders, EMERGENCY_CLOSE_ON_HARD_TIMEOUT, now,
                 nTicks, nCalls, nResets, nLiveOpened, nWatchReturned>>

\* lines 883-887: confirm with the exchange
OpenLiveConfirm ==
  /\ pc = "ol_confirm"
  /\ \E fails \in BOOLEAN :
       LET op1 == reconcile_position(open_positions, lv.symbol,
                                     PositionRisk(lv.symbol, fails))
       IN /\ open_positions' = op1
          /\ IF lv.symbol \notin DOMAIN op1
             THEN /\ open_live_raise("OpenUnconfirmed")
                  /\ UNCHANGED nLiveOpened
             ELSE /\ pc' = "ol_cancel"
                  /\ nLiveOpened' = IF venue_pos[lv.symbol].amt # 0
                                    THEN nLiveOpened + 1 ELSE nLiveOpened
                  /\ UNCHANGED <<lv, ret, paperVars>>
  /\ UNCHANGED <<orchVars, venue_pos, venue_orders,
                 EMERGENCY_CLOSE_ON_HARD_TIMEOUT, now, nTicks, nCalls, nResets,
                 nWatchReturned>>

\* lines 891-920: bracket prices, cancel_all_open_orders (a failure is only
\* printed), then the first place_conditional_close_all call.  The call
\* passes no `quantity`, which lines 441-451 declare keyword-only and
\* without a default: it raises TypeError before any request is sent, so
\* open_live ends here, raising, on every path that confirmed the entry.
OpenLiveBrackets ==
  /\ pc = "ol_cancel"
  /\ \E fails \in BOOLEAN :
       venue_orders' = IF fails THEN venue_orders
                       ELSE {o \in venue_orders : o.symbol # lv.symbol}
  /\ open_live_raise("Bracket")
  /\ UNCHANGED <<orchVars, open_positions, venue_pos,
                 EMERGENCY_CLOSE_ON_HARD_TIMEOUT, now, nTicks, nCalls, nResets,
                 nLiveOpened, nWatchReturned>>


(***************************************************************************)
(* The other tasks of Orchestrator.run and the environment.                *)
(***************************************************************************)
RECURSIVE Orders(_)
Orders(S) ==
  IF S = {} THEN {<<>>}
  ELSE UNION {{<<x>> \o q : q \in Orders(S \ {x})} : x \in S}

\* the body of the for loop of paper_timeout_loop over the snapshot `order`
\* with px = last_price.get(sym); a symbol without a tick price takes the
\* REST path, which this loop leaves to the next sweep
RECURSIVE close_timeouts(_, _, _)
close_timeouts(P, order, lp) ==
  IF order = <<>> THEN P
  ELSE LET sym == Head(order)
       IN close_timeouts(IF sym \in DOMAIN lp
                         THEN close(P, sym, lp[sym], "TIMEOUT") ELSE P,
                         Tail(order), lp)

\* paper_timeout_loop: one sweep.  Every position was opened on a tick of
\* its symbol, so last_price holds a price and the loop runs without await.
\* The snapshot is a list in dict order; every order is allowed here.
paper_timeout_loop ==
  /\ ~stop_event
  /\ timed_out_symbols(Paper, now) # {}
  /\ \E order \in Orders(timed_out_symbols(Paper, now)) :
       SetPaper(close_timeouts(Paper, order, last_price))
  /\ UNCHANGED <<orchVars, taskVars, liveVars, histVars, now>>

\* universe_loop: build_universe answered syms (non-empty, changed)
universe_loop(syms) ==
  /\ ~stop_event
  /\ syms # {} /\ syms # active_symbols
  /\ active_symbols' = syms
  /\ streak_losses' = [s \in DOMAIN streak_losses \cup syms |->
                         Get(streak_losses, s, 0)]
  /\ UNCHANGED <<positions, freeze_paper_entries, freeze_streak_updates,
                 trigger_symbol, last_trade_ts, trade_counts_hour,
                 paper_log, last_price, stop_event, cfgVars, wsVars, uniVars, sigVars, taskVars, liveVars, histVars, now>>

\* time.time() advances
AdvanceTime ==
  /\ now < MaxTime
  /\ now' = now + 1
  /\ UNCHANGED <<paperVars, orchVars, taskVars, liveVars, histVars>>

\* _install_signal_handlers: SIGINT / SIGTERM sets the stop event
SetStop ==
  /\ ~stop_event
  /\ stop_event' = TRUE
  /\ UNCHANGED <<paperVars, active_symbols, last_price, cfgVars, wsVars, uniVars, sigVars,
                 taskVars, liveVars, histVars, now>>

\* Orchestrator.run after stop_event.wait() (lines 1506-1509): the ws task
\* is cancelled at the await it is suspended in; CancelledError passes the
\* `except Exception` clauses and runs the `finally` of lines 1323-1324
Shutdown ==
  /\ stop_event
  /\ pc \notin {"idle", "cancelled"}
  /\ pc' = "cancelled"
  /\ IF lv.cont = "tail"
     THEN /\ SetPaper(reset_all_streaks(Paper, active_symbols))
          /\ nResets' = nResets + 1
     ELSE UNCHANGED <<paperVars, nResets>>
  /\ UNCHANGED <<orchVars, lv, liveVars, now, nTicks, nCalls, nLiveOpened,
                 nWatchReturned, ret>>

\* the venue closes a position by itself (liquidation, a manual flatten,
\* an order left by another script of the repository)
VenueExternalClose(symbol) ==
  /\ venue_pos[symbol].amt # 0
  /\ venue_pos' = [venue_pos EXCEPT ![symbol] = Flat]
  /\ UNCHANGED <<paperVars, orchVars, taskVars, open_positions, venue_orders,
                 EMERGENCY_CLOSE_ON_HARD_TIMEOUT, histVars, now>>

(***************************************************************************)
(* LiveEngine.watch_until_close and LiveEngine.close_live_market, one      *)
(* action per await.  lv.cont = "tail" when the method runs under lines    *)
(* 1318-1324 of the handler (try: watch ... finally: reset_all_streaks).   *)
(***************************************************************************)
\* lines 1321-1324: what the handler does to Paper when the watch ended,
\* by return or by exception (the finally clause)
after_watch(P, active) == reset_all_streaks(P, active)

\* the method running in the ws task ends and control returns to its caller
Return(op, ok, why) ==
  /\ ret' = [op |-> op, ok |-> ok, symbol |-> lv.symbol, why |-> why,
             tail |-> (lv.cont = "tail"), order_id_exit |-> lv.order_id_exit]
  /\ pc' = "idle"
  /\ lv' = NoLocals
  /\ IF lv.cont = "tail"
     THEN /\ SetPaper(after_watch(Paper, active_symbols))
          /\ nResets' = nResets + 1
     ELSE UNCHANGED <<paperVars, nResets>>

\* close_live_market up to its first await (lines 968-985) when the local
\* position exists: quantity from the local position, rounded to steps
close_live_market_begin(symbol, op, reason) ==
  /\ lv' = [lv EXCEPT !.symbol = symbol, !.side = op[symbol].side,
                      !.qty = op[symbol].qty, !.reason = reason]
  /\ pc' = "cl_order"

\* the loop test of line 1043
watch_next == IF stop_event THEN "w_trades" ELSE "w_poll"

\* lines 1044-1058: sleep, reconcile, flat test, hard timeout
WatchPoll ==
  /\ pc = "w_poll"
  /\ \E fails \in BOOLEAN :
       LET op1 == reconcile_position(open_positions, lv.symbol,
                                     PositionRisk(lv.symbol, fails))
       IN /\ open_positions' = op1
          /\ IF lv.symbol \notin DOMAIN op1
             THEN /\ pc' = "w_trades" /\ UNCHANGED lv
             ELSE IF WATCH_HARD_TIMEOUT_SEC > 0
                     /\ (now - lv.t0) >= WATCH_HARD_TIMEOUT_SEC
             THEN IF EMERGENCY_CLOSE_ON_HARD_TIMEOUT
                  THEN close_live_market_begin(lv.symbol, op1,
                                               "TIMEOUT_HARD_EMERGENCY")
                  ELSE /\ lv' = [lv EXCEPT !.t0 = now]
                       /\ pc' = watch_next
             ELSE /\ pc' = watch_next /\ UNCHANGED lv
  /\ UNCHANGED <<paperVars, orchVars, venue_pos, venue_orders,
                 EMERGENCY_CLOSE_ON_HARD_TIMEOUT, histVars, now>>

\* what user_trades may answer: it raises, or it gives the order ids of the
\* symbol's trades in time order ("E" the entry order, "X" the order that
\* closed the position; no bracket order is ever on the venue, see
\* OpenLiveBrackets)
UserTrades == {[raise |-> TRUE, oids |-> <<>>],
               [raise |-> FALSE, oids |-> <<"E">>],
               [raise |-> FALSE, oids |-> <<"E", "X">>]}

\* lines 1069-1078: the last trade that is not of the entry order; "" when
\* there is none
RECURSIVE exit_trade(_, _)
exit_trade(oids, entry_order_id) ==
  IF oids = <<>> THEN ""
  ELSE LET oid == oids[Len(oids)]
       IN IF entry_order_id # "" /\ oid = entry_order_id
          THEN exit_trade(SubSeq(oids, 1, Len(oids) - 1), entry_order_id)
          ELSE oid

\* lines 1080-1091: the reason of the LIVE row
exit_reason(order_id_exit, tp_oid, sl_oid) ==
  IF order_id_exit # "" /\ tp_oid # "" /\ order_id_exit = tp_oid
  THEN "TP_EXCHANGE"
  ELSE IF order_id_exit # "" /\ sl_oid # "" /\ order_id_exit = sl_oid
  THEN "SL_EXCHANGE"
  ELSE "CLOSE_UNKNOWN"

\* lines 1061-1095: user_trades and the choice of the exit trade
WatchTrades ==
  /\ pc = "w_trades"
  /\ \E tr \in UserTrades :
       LET oid == IF tr.raise THEN ""
                  ELSE exit_trade(tr.oids, lv.entry_order_id)
       IN lv' = [lv EXCEPT !.order_id_exit = oid,
                           !.reason = exit_reason(oid, lv.tp_oid, lv.sl_oid)]
  /\ pc' = "w_cancel"
  /\ UNCHANGED <<paperVars, orchVars, liveVars, histVars, now>>

\* lines 1097-1130: cancel_all_open_orders (best effort), the LIVE log row,
\* the local position is dropped, return
WatchSettle ==
  /\ pc = "w_cancel"
  /\ \E fails \in BOOLEAN :
       venue_orders' = IF fails THEN venue_orders
                       ELSE {o \in venue_orders : o.symbol # lv.symbol}
  /\ open_positions' = Pop(open_positions, lv.symbol)
  /\ nWatchReturned' = nWatchReturned + 1
  /\ Return("watch_until_close", TRUE, lv.reason)
  /\ UNCHANGED <<orchVars, venue_pos, EMERGENCY_CLOSE_ON_HARD_TIMEOUT, now,
                 nTicks, nCalls, nLiveOpened>>

\* line 968 when the local position is missing: reconcile first
CloseReconcile ==
  /\ pc = "cl_rec"
  /\ \E fails \in BOOLEAN :
       LET op1 == reconcile_position(open_positions, lv.symbol,
                                     PositionRisk(lv.symbol, fails))
       IN /\ open_positions' = op1
          /\ IF lv.symbol \notin DOMAIN op1
             THEN /\ Return("close_live_market", FALSE, "NoPosition")
             ELSE /\ close_live_market_begin(lv.symbol, op1, lv.reason)
                  /\ UNCHANGED <<ret, paperVars, nResets>>
  /\ UNCHANGED <<orchVars, venue_pos, venue_orders,
                 EMERGENCY_CLOSE_ON_HARD_TIMEOUT, now, nTicks, nCalls,
                 nLiveOpened, nWatchReturned>>

\* lines 984-1013: the reduce-only MARKET order and the LIVE log row.  The
\* venue fills it or leaves the position as it is (the answer comes before
\* the fill, or the order expires unfilled).
CloseOrder ==
  /\ pc = "cl_order"
  /\ \E outcome \in {"raise", "filled", "unfilled"} :
       IF outcome = "raise"
       THEN /\ Return("close_live_market", FALSE, "Rejected")
            /\ UNCHANGED venue_pos
       ELSE /\ venue_pos' =
                 IF outcome = "filled"
                 THEN VenueFill(venue_pos, lv.symbol,
                                IF lv.side = "LONG" THEN "SELL" ELSE "BUY",
                                lv.qty, lv.price, TRUE)
                 ELSE venue_pos
            /\ pc' = "cl_confirm"
            /\ UNCHANGED <<lv, ret, paperVars, nResets>>
  /\ UNCHANGED <<orchVars, open_positions, venue_orders,
                 EMERGENCY_CLOSE_ON_HARD_TIMEOUT, now, nTicks, nCalls,
                 nLiveOpened, nWatchReturned>>

\* lines 1015-1023: sleep, best-effort reconcile, drop the local position,
\* return the result
CloseConfirm ==
  /\ pc = "cl_confirm"
  /\ \E fails \in BOOLEAN :
       open_positions' =
         Pop(reconcile_position(open_positions, lv.symbol,
                                PositionRisk(lv.symbol, fails)), lv.symbol)
  /\ nWatchReturned' = IF lv.cont = "tail" THEN nWatchReturned + 1
                       ELSE nWatchReturned
  /\ Return("close_live_market", TRUE, lv.reason)
  /\ UNCHANGED <<orchVars, venue_pos, venue_orders,
                 EMERGENCY_CLOSE_ON_HARD_TIMEOUT, now, nTicks, nCalls,
                 nLiveOpened>>

(***************************************************************************)
(* The methods of LiveEngine called one after another, in any order, on an *)
(* armed system: the calls the handler makes (lines 1311-1316, lines       *)
(* 1318-1324) and direct calls of reconcile_position and                   *)
(* close_live_market.                                                      *)
(***************************************************************************)
\* lines 1311-1316: try: open_live(symbol, sig, price) except: return
call_open_live(symbol, side, px) ==
  /\ pc = "idle"
  /\ nCalls < MaxCalls
  /\ nCalls' = nCalls + 1
  /\ open_live_begin(symbol, side, px)
  /\ ret' = NoRet
  /\ UNCHANGED <<paperVars, orchVars, liveVars, now, nTicks, nResets,
                 nLiveOpened, nWatchReturned>>

\* lines 1318-1324 with watch_until_close up to its first await (1031-1043);
\* the handler comes here with the position open_live returned, so the local
\* entry exists
call_watch_until_close(symbol) ==
  /\ pc = "idle"
  /\ symbol \in DOMAIN open_positions
  /\ nCalls < MaxCalls
  /\ nCalls' = nCalls + 1
  /\ lv' = [NoLocals EXCEPT
              !.symbol = symbol,
              !.side = IF symbol \in DOMAIN open_positions
                       THEN open_positions[symbol].side ELSE "LONG",
              !.price = IF symbol \in DOMAIN open_positions
                        THEN open_positions[symbol].entry ELSE 0,
              !.entry_order_id =
                  IF symbol \in DOMAIN open_positions
                  THEN open_positions[symbol].order_id_entry ELSE "",
              !.tp_oid = IF symbol \in DOMAIN open_positions
                         THEN open_positions[symbol].tp_order_id ELSE "",
              !.sl_oid = IF symbol \in DOMAIN open_positions
                         THEN open_positions[symbol].sl_order_id ELSE "",
              !.t0 = now,
              !.cont = "tail"]
  /\ pc' = watch_next
  /\ ret' = NoRet
  /\ UNCHANGED <<paperVars, orchVars, liveVars, now, nTicks, nResets,
                 nLiveOpened, nWatchReturned>>

call_reconcile_position(symbol) ==
  /\ pc = "idle"
  /\ \E fails \in BOOLEAN :
       open_positions' = reconcile_position(open_positions, symbol,
                                            PositionRisk(symbol, fails))
  /\ ret' = [NoRet EXCEPT !.op = "reconcile_position", !.ok = TRUE,
                          !.symbol = symbol]
  /\ UNCHANGED <<paperVars, orchVars, taskVars, venue_pos, venue_orders,
                 EMERGENCY_CLOSE_ON_HARD_TIMEOUT, now, nTicks, nCalls,
                 nResets, nLiveOpened, nWatchReturned>>

call_close_live_market(symbol, reason) ==
  /\ pc = "idle"
  /\ nCalls < MaxCalls
  /\ nCalls' = nCalls + 1
  /\ IF symbol \in DOMAIN open_positions
     THEN /\ lv' = [NoLocals EXCEPT !.symbol = symbol,
                                    !.side = open_positions[symbol].side,
                                    !.qty = open_positions[symbol].qty,
                                    !.reason = reason]
          /\ pc' = "cl_order"
     ELSE /\ lv' = [NoLocals EXCEPT !.symbol = symbol, !.reason = reason]
          /\ pc' = "cl_rec"
  /\ ret' = NoRet
  /\ UNCHANGED <<paperVars, orchVars, liveVars, now, nTicks, nResets,
                 nLiveOpened, nWatchReturned>>

(***************************************************************************)
(* The ws stream: Orchestrator.ws_loop, _on_ws_message and                 *)
(* ws_watchdog_loop.  A step of a task runs from one await to the next.    *)
(***************************************************************************)
WS_STALE_SEC == 1
WS_STALE_HITS_TO_RECONNECT == 2

\* the clock of the ws stream runs to MaxWsTime, and the venue sends up to
\* MaxFrames frames
MaxWsTime == 4
MaxFrames == 2

\* the values of Config.WS_MODE, and a WS_BASE without and with "/ws"
WsModes == {"AUTO", "COMBINED", "SUBSCRIBE"}
WsBases == {"wss://fstream.asterdex.com", "wss://fstream.asterdex.com/ws"}

\* lines 1334-1336
resolve_mode(mode, base) ==
  IF mode = "AUTO"
  THEN (IF base = "wss://fstream.asterdex.com/ws" THEN "SUBSCRIBE"
        ELSE "COMBINED")
  ELSE mode

\* the ws stream before the tasks start (Orchestrator.__init__)
NoWs ==
  /\ WS_MODE = "AUTO" /\ WS_BASE = "wss://fstream.asterdex.com"
  /\ _ws = None /\ _ws_close_sent = FALSE
  /\ ws_reconnect_requested = FALSE
  /\ last_ws_msg_ts = 0
  /\ ws_pc = "top" /\ ws_wake = 0
  /\ handling = <<>> /\ handled = <<>>
  /\ stale_hits = 0 /\ wd_wake = 1
  /\ sock = "none" /\ inbox = <<>> /\ nSent = 0
  /\ nReq = 0 /\ nClose = 0

\* a write of last_ws_msg_ts (lines 1347, 1356, 1372) ends the stale episode
refresh_last_ws_msg_ts ==
  /\ last_ws_msg_ts' = now
  /\ nReq' = 0 /\ nClose' = 0

\* the head of the receive loop (line 1349) and, when the loop is left,
\* lines 1357-1358
receive_loop_head ==
  IF stop_event \/ ws_reconnect_requested
  THEN /\ ws_pc' = "aexit" /\ _ws' = None /\ _ws_close_sent' = FALSE
  ELSE /\ ws_pc' = "recv" /\ UNCHANGED <<_ws, _ws_close_sent>>

\* the except clause of lines 1359-1362, which leaves _ws and
\* _ws_close_sent as they are
ws_loop_except ==
  /\ ws_pc' = "sleep" /\ ws_wake' = now + 3
  /\ sock' = "none" /\ inbox' = <<>>
  /\ UNCHANGED <<_ws, _ws_close_sent>>

\* ws_loop from the head of its outer loop (line 1327) to its next await.
\* In COMBINED mode that is the connect of line 1344.  In any other mode
\* the try block is empty, the flag just cleared is not set, and the loop
\* comes round again without an await: the task never yields ("spin").
ws_loop_top ==
  /\ ws_pc = "top"
  /\ IF stop_event
     THEN /\ ws_pc' = "done"
          /\ UNCHANGED <<ws_reconnect_requested, ws_wake>>
     ELSE IF active_symbols = {}
     THEN /\ ws_pc' = "sleep" /\ ws_wake' = now + 1
          /\ UNCHANGED ws_reconnect_requested
     ELSE /\ ws_reconnect_requested' = FALSE
          /\ ws_pc' = IF resolve_mode(WS_MODE, WS_BASE) = "COMBINED"
                      THEN "connect" ELSE "spin"
          /\ UNCHANGED ws_wake
  /\ UNCHANGED <<paperVars, active_symbols, last_price, stop_event, cfgVars, uniVars, sigVars,
                 _ws, _ws_close_sent, last_ws_msg_ts, handling, handled,
                 stale_hits, wd_wake, sock, inbox, nSent, nReq, nClose,
                 taskVars, liveVars, histVars, now>>

\* websockets.connect answers (line 1344): connected (lines 1345-1349) or
\* an exception
ws_loop_connect ==
  /\ ws_pc = "connect"
  /\ \/ /\ sock' = "open" /\ inbox' = <<>>
        /\ refresh_last_ws_msg_ts
        /\ IF stop_event \/ ws_reconnect_requested
           THEN ws_pc' = "aexit" /\ _ws' = None
           ELSE ws_pc' = "recv" /\ _ws' = "ws"
        /\ _ws_close_sent' = FALSE
        /\ UNCHANGED ws_wake
     \/ /\ ws_loop_except
        /\ UNCHANGED <<last_ws_msg_ts, nReq, nClose>>
  /\ UNCHANGED <<paperVars, active_symbols, last_price, stop_event, cfgVars, uniVars, sigVars,
                 ws_reconnect_requested, handling, handled, stale_hits,
                 wd_wake, nSent, taskVars, liveVars, histVars, now>>

\* create_task in place of the await of line 1404: ws_loop goes on to the
\* next recv while the handler is suspended; the dispatch C25 rules out
handler_as_task(suspends) == "loop"

\* line 1404, await self._handle_trade_tick(...): where ws_loop is when the
\* handler has run to its first await ("handler": suspended inside it) or
\* to its end ("loop": back at the head of the receive loop)
await_handler(suspends) == IF suspends THEN "handler" ELSE "loop"

\* the frames the venue sends: a trade of an active symbol, and anything
\* _on_ws_message returns on (an ack, another symbol, no price)
FrameKinds == {"trade", "other"}

\* wait_for(ws.recv(), 1.0) answers (lines 1350-1358): ConnectionClosed
\* once the close of the watchdog has gone through; else a timeout, or the
\* next frame, which goes through _on_ws_message (lines 1371-1404) into the
\* handler.  The handler runs to its end (the paper branches) or suspends
\* on a gateway call.
ws_loop_recv ==
  /\ ws_pc = "recv"
  /\ \/ /\ sock = "closed"
        /\ ws_loop_except
        /\ UNCHANGED <<last_ws_msg_ts, nReq, nClose, handling, handled>>
     \/ /\ receive_loop_head
        /\ UNCHANGED <<last_ws_msg_ts, nReq, nClose, handling, handled,
                       sock, inbox, ws_wake>>
     \/ /\ sock = "open"
        /\ inbox # <<>>
        /\ inbox' = Tail(inbox)
        /\ refresh_last_ws_msg_ts
        /\ LET f == Head(inbox)
           IN IF f.kind # "trade"
              THEN /\ receive_loop_head
                   /\ UNCHANGED <<handling, handled>>
              ELSE \E suspends \in BOOLEAN :
                     /\ handling' = IF suspends THEN Append(handling, f.n)
                                    ELSE handling
                     /\ handled' = IF suspends THEN handled
                                   ELSE Append(handled, f.n)
                     /\ IF await_handler(suspends) = "handler"
                        THEN /\ ws_pc' = "handler"
                             /\ UNCHANGED <<_ws, _ws_close_sent>>
                        ELSE receive_loop_head
        /\ UNCHANGED <<sock, ws_wake>>
  /\ UNCHANGED <<paperVars, active_symbols, last_price, stop_event, cfgVars, uniVars, sigVars,
                 ws_reconnect_requested, stale_hits, wd_wake, nSent,
                 taskVars, liveVars, histVars, now>>

\* a suspended handler gets its answer and runs to its end; the ws_loop
\* that awaits it goes back to the head of the receive loop
handler_returns ==
  /\ ws_pc # "spin"
  /\ \E i \in 1..Len(handling) :
       /\ handled' = Append(handled, handling[i])
       /\ handling' = [k \in 1..(Len(handling) - 1) |->
                         IF k < i THEN handling[k] ELSE handling[k + 1]]
  /\ IF ws_pc = "handler" THEN receive_loop_head
     ELSE UNCHANGED <<ws_pc, _ws, _ws_close_sent>>
  /\ UNCHANGED <<paperVars, active_symbols, last_price, stop_event, cfgVars, uniVars, sigVars,
                 ws_reconnect_requested, last_ws_msg_ts, ws_wake, stale_hits,
                 wd_wake, sock, inbox, nSent, nReq, nClose,
                 taskVars, liveVars, histVars, now>>

\* the async with of line 1344 is left (the socket is closed), then lines
\* 1364-1367
ws_loop_exit ==
  /\ ws_pc = "aexit"
  /\ sock' = "none" /\ inbox' = <<>>
  /\ IF ws_reconnect_requested /\ ~stop_event
     THEN ws_pc' = "sleep" /\ ws_wake' = now + 1
     ELSE ws_pc' = "top" /\ UNCHANGED ws_wake
  /\ UNCHANGED <<paperVars, active_symbols, last_price, stop_event, cfgVars, uniVars, sigVars,
                 _ws, _ws_close_sent, ws_reconnect_requested, last_ws_msg_ts,
                 handling, handled, stale_hits, wd_wake, nSent, nReq, nClose,
                 taskVars, liveVars, histVars, now>>

\* an asyncio.sleep of ws_loop ends (lines 1330, 1361, 1366): continue
ws_loop_wake ==
  /\ ws_pc = "sleep"
  /\ now >= ws_wake
  /\ ws_pc' = "top"
  /\ UNCHANGED <<paperVars, active_symbols, last_price, stop_event, cfgVars, uniVars, sigVars,
                 _ws, _ws_close_sent, ws_reconnect_requested, last_ws_msg_ts,
                 ws_wake, handling, handled, stale_hits, wd_wake, sock, inbox,
                 nSent, nReq, nClose, taskVars, liveVars, histVars, now>>

\* ws_watchdog_loop: one pass of its loop after the sleep of line 1427.  The
\* close of line 1449 runs as a task of its own; ws_loop sees the closed
\* socket or the flag, whichever its recv answers with.
ws_watchdog_loop ==
  /\ ws_pc # "spin"
  /\ ~stop_event
  /\ now >= wd_wake
  /\ wd_wake' = now + 1
  /\ IF now - last_ws_msg_ts <= WS_STALE_SEC
     THEN /\ stale_hits' = 0
          /\ UNCHANGED <<ws_reconnect_requested, _ws_close_sent, sock,
                         nReq, nClose>>
     ELSE /\ stale_hits' = stale_hits + 1
          /\ IF stale_hits + 1 < WS_STALE_HITS_TO_RECONNECT
             THEN UNCHANGED <<ws_reconnect_requested, _ws_close_sent, sock,
                              nReq, nClose>>
             ELSE /\ ws_reconnect_requested' = TRUE
                  /\ nReq' = IF ws_reconnect_requested THEN nReq ELSE nReq + 1
                  /\ IF _ws # None /\ ~_ws_close_sent
                     THEN /\ _ws_close_sent' = TRUE
                          /\ sock' = IF sock = "open" THEN "closed" ELSE sock
                          /\ nClose' = nClose + 1
                     ELSE UNCHANGED <<_ws_close_sent, sock, nClose>>
  /\ UNCHANGED <<paperVars, active_symbols, last_price, stop_event, cfgVars, uniVars, sigVars,
                 _ws, last_ws_msg_ts, ws_pc, ws_wake, handling, handled,
                 inbox, nSent, taskVars, liveVars, histVars, now>>

\* the venue sends a frame on the open socket
VenueSend(kind) ==
  /\ sock = "open"
  /\ nSent < MaxFrames
  /\ nSent' = nSent + 1
  /\ inbox' = Append(inbox, [n |-> nSent + 1, kind |-> kind])
  /\ UNCHANGED <<paperVars, active_symbols, last_price, stop_event, cfgVars, uniVars, sigVars,
                 _ws, _ws_close_sent, ws_reconnect_requested, last_ws_msg_ts,
                 ws_pc, ws_wake, handling, handled, stale_hits, wd_wake,
                 sock, nReq, nClose, taskVars, liveVars, histVars, now>>

\* time.time() advances on the clock of the ws stream
WsAdvanceTime ==
  /\ now < MaxWsTime
  /\ now' = now + 1
  /\ UNCHANGED <<paperVars, orchVars, taskVars, liveVars, histVars>>

(***************************************************************************)
(* The universe builder: Orchestrator.build_universe, and the selection    *)
(* of build_universe_once (src/src/universe.py).  Symbol names are         *)
(* upper-case and stripped where they enter (split_list, line 223; the     *)
(* ticker symbol, line 1176), so the upper().strip() of line 1201 leaves   *)
(* them as they are.                                                       *)
(***************************************************************************)
\* the symbols of the venue that end in Config.QUOTE, and one that does not
QuoteSymbols == {"A", "B", "C"}
VenueSymbols == QuoteSymbols \cup {"X"}

\* Config.MIN_24H_QUOTE_VOL, and the 24h quote volumes a ticker carries
MIN_24H_QUOTE_VOL == 2
QuoteVolumes == {1, 3}

\* the values of the Config fields the builder reads
SymbolModes == {"HYBRID_PRIORITY", "WHITELIST_ONLY", "AUTO_ONLY"}
Whitelists == SUBSET QuoteSymbols
Blacklists == SUBSET {"A", "B"}
SkipLists == {{}, {"C"}}
Targets == {1, 2}
AutoTopNs == {1, 3}

\* the universe builder before the first build (Config defaults, lines
\* 152-159)
NoUniverse ==
  /\ SYMBOL_MODE = "HYBRID_PRIORITY"
  /\ WHITELIST = {} /\ BLACKLIST = {} /\ SKIP_SYMBOLS = {}
  /\ TARGET_SYMBOLS = 20 /\ AUTO_TOP_N = 40
  /\ WHITELIST_PRIORITY = TRUE
  /\ universe_syms = <<>> /\ activeSymbols = <<>>

\* the answer of api.tickers_24h(): an exception, or one ticker per symbol
\* of some of the venue's symbols, in the venue's order
TickersFail == [raised |-> TRUE, tickers |-> <<>>]
RECURSIVE TickerLists(_)
TickerLists(order) ==
  IF order = <<>> THEN {<<>>}
  ELSE LET rest == TickerLists(Tail(order))
       IN rest \cup {<<[symbol |-> Head(order), quoteVolume |-> qv]>> \o r :
                       qv \in QuoteVolumes, r \in rest}
TickerAnswers ==
  {TickersFail} \cup
  {[raised |-> FALSE, tickers |-> l] : l \in TickerLists(<<"A", "B", "C", "X">>)}

\* seq[:n]
Take(seq, n) == SubSeq(seq, 1, IF n < Len(seq) THEN n ELSE Len(seq))

\* the order-preserving removal of duplicates (lines 1199-1203)
RECURSIVE uniq(_)
uniq(seq) ==
  IF seq = <<>> THEN <<>>
  ELSE LET front == uniq(SubSeq(seq, 1, Len(seq) - 1))
           s == seq[Len(seq)]
       IN IF \E i \in 1..Len(front) : front[i] = s THEN front
          ELSE Append(front, s)

\* filtered.sort(key=lambda x: x[1], reverse=True) (line 1185): a stable
\* sort, equal volumes keep their order
RECURSIVE sort_by_volume(_)
sort_by_volume(filtered) ==
  IF filtered = <<>> THEN <<>>
  ELSE LET first == CHOOSE i \in 1..Len(filtered) :
                      /\ \A j \in 1..Len(filtered) :
                           filtered[j].quoteVolume <= filtered[i].quoteVolume
                      /\ \A j \in 1..(i - 1) :
                           filtered[j].quoteVolume < filtered[i].quoteVolume
       IN <<filtered[first]>> \o
          sort_by_volume([k \in 1..(Len(filtered) - 1) |->
                            IF k < first THEN filtered[k]
                            ELSE filtered[k + 1]])

\* build_universe with the whitelist returned as it is
build_universe_whitelist_as_is(answer, wl) == wl

\* Orchestrator.build_universe; `answer` is the answer of the gateway and
\* `wl` the whitelist in the order the set iterates in
build_universe(answer, wl) ==
  LET kept(s) == s \notin BLACKLIST /\ s \notin SKIP_SYMBOLS
      whitelisted == SelectSeq(wl, kept)
      InSeq(s, seq) == \E i \in 1..Len(seq) : seq[i] = s
  IN IF SYMBOL_MODE = "WHITELIST_ONLY" THEN uniq(whitelisted)
     ELSE IF answer.raised THEN uniq(whitelisted)
     ELSE LET passes(t) ==
                /\ t.symbol \in QuoteSymbols
                /\ kept(t.symbol)
                /\ ~(t.quoteVolume < MIN_24H_QUOTE_VOL
                       /\ t.symbol \notin WHITELIST)
              filtered == sort_by_volume(SelectSeq(answer.tickers, passes))
              top == Take([i \in 1..Len(filtered) |-> filtered[i].symbol],
                          AUTO_TOP_N)
              intop(s) == InSeq(s, top)
              first == SelectSeq(wl, intop)
              notfirst(s) == ~InSeq(s, first)
              merged == IF WHITELIST # {}
                        THEN first \o SelectSeq(top, notfirst)
                        ELSE top
          IN uniq(Take(merged, TARGET_SYMBOLS))

\* build_universe_once, lines 192-224, without an ACTIVE_SYMBOLS override
\* (Config default); `ranked` is the filtered and ranked candidate list of
\* lines 93-190 and `wl` the whitelist in the order the set iterates in
build_universe_once(ranked, wl) ==
  LET auto == Take(ranked, IF AUTO_TOP_N > 1 THEN AUTO_TOP_N ELSE 1)
      listed(s) == s \in QuoteSymbols /\ s \notin BLACKLIST
      whitelisted == SelectSeq(wl, listed)
  IN IF SYMBOL_MODE = "WHITELIST_ONLY" THEN whitelisted
     ELSE IF SYMBOL_MODE = "AUTO_ONLY" THEN Take(auto, TARGET_SYMBOLS)
     ELSE Take(IF WHITELIST_PRIORITY THEN uniq(whitelisted \o auto)
               ELSE uniq(auto \o whitelisted),
               TARGET_SYMBOLS)

\* the candidate lists of build_universe_once: symbols of the venue that end
\* in the quote and are not blacklisted (lines 95-106, 173), in any ranking
RankedLists ==
  UNION {Orders(S) : S \in SUBSET (QuoteSymbols \ BLACKLIST)}

\* universe_loop calls build_universe (line 1209)
call_build_universe ==
  /\ ~stop_event
  /\ \E answer \in TickerAnswers, wl \in Orders(WHITELIST) :
       universe_syms' = build_universe(answer, wl)
  /\ UNCHANGED <<paperVars, active_symbols, last_price, stop_event, cfgVars,
                 wsVars, activeSymbols, sigVars, taskVars, liveVars, histVars, now>>

\* run_paper.py and run_universe.py call build_universe_once
call_build_universe_once ==
  /\ \E ranked \in RankedLists, wl \in Orders(WHITELIST) :
       activeSymbols' = build_universe_once(ranked, wl)
  /\ UNCHANGED <<paperVars, active_symbols, last_price, stop_event, cfgVars,
                 wsVars, universe_syms, sigVars, taskVars, liveVars, histVars, now>>

(***************************************************************************)
(* SignalEngine.  Percentages are in tenths of a percent, as in Config; an *)
(* Optional[float] is <<>> (None) or <<x>>.  The impulse return is kept as *)
(* the fraction num / den of tenths of a percent, so that the comparisons  *)
(* of signal_side are exact.                                               *)
(***************************************************************************)
IMPULSE_LOOKBACK_SEC == 1
MIN_ATR_PCT == 1
MAX_SPREAD_PCT == 1

\* SignalEngine.update appends up to MaxSignalTicks ticks
MaxSignalTicks == 2

\* the values of Config.BREAKOUT_BUFFER_PCT (0 and 1.0 %), the prices of the
\* ticks, and the atr_pct and spread_pct the handler passes
BreakoutBuffers == {0, 10}
TickPrices == {0, 99, 100, 101}
Percents == {<<>>, <<0>>, <<1>>, <<2>>}

\* no call of signal_side yet
NoSignalCall == [called |-> FALSE, ret |-> <<>>, atr_pct |-> <<>>,
                 spread_pct |-> <<>>, side |-> None]

\* the SignalEngine before the first tick (SignalEngine.__init__, Config
\* default of BREAKOUT_BUFFER_PCT)
NoSignals ==
  /\ ticks = EmptyDict
  /\ BREAKOUT_BUFFER_PCT = 1
  /\ signal = NoSignalCall

\* SignalEngine.impulse_return_pct at time.time() = t: <<>> or
\* <<[num, den]>> for (last_px - old_px) / old_px * 100
impulse_return_pct(T, symbol, t) ==
  LET dq == Get(T, symbol, <<>>)
  IN IF Len(dq) < 2 THEN <<>>
     ELSE LET cutoff == t - IMPULSE_LOOKBACK_SEC
              recent == {i \in 1..Len(dq) : dq[i].ts >= cutoff}
              older == IF recent = {} THEN dq[1]
                       ELSE dq[CHOOSE i \in recent : \A j \in recent : i <= j]
              old_px == older.px
              last_px == dq[Len(dq)].px
          IN IF old_px <= 0 THEN <<>>
             ELSE <<[num |-> (last_px - old_px) * 1000, den |-> old_px]>>

\* SignalEngine.signal_side, lines 747-757
signal_side(T, symbol, atr_pct, spread_pct, t) ==
  LET r == impulse_return_pct(T, symbol, t)
  IN IF r = <<>> THEN None
     ELSE IF Abs(r[1].num) < BREAKOUT_BUFFER_PCT * r[1].den THEN None
     ELSE IF atr_pct = <<>> \/ atr_pct[1] < MIN_ATR_PCT THEN None
     ELSE IF spread_pct = <<>> \/ spread_pct[1] > MAX_SPREAD_PCT THEN None
     ELSE IF r[1].num > 0 THEN "LONG" ELSE "SHORT"

\* SignalEngine.update, lines 721-726 (line 1269 of the handler)
update(symbol, price) ==
  /\ symbol \in active_symbols
  /\ Len(Get(ticks, symbol, <<>>)) < MaxSignalTicks
  /\ ticks' = Put(ticks, symbol,
                  Append(Get(ticks, symbol, <<>>), [ts |-> now, px |-> price]))
  /\ UNCHANGED <<paperVars, active_symbols, last_price, stop_event, cfgVars,
                 wsVars, uniVars, BREAKOUT_BUFFER_PCT, signal, taskVars, liveVars, histVars, now>>

\* the handler calls signal_side (line 1279)
call_signal_side(symbol, atr_pct, spread_pct) ==
  /\ symbol \in active_symbols
  /\ signal' = [called |-> TRUE,
                ret |-> impulse_return_pct(ticks, symbol, now),
                atr_pct |-> atr_pct, spread_pct |-> spread_pct,
                side |-> signal_side(ticks, symbol, atr_pct, spread_pct, now)]
  /\ UNCHANGED <<paperVars, active_symbols, last_price, stop_event, cfgVars,
                 wsVars, uniVars, BREAKOUT_BUFFER_PCT, ticks, taskVars, liveVars, histVars, now>>

(***************************************************************************)
(* The program: Orchestrator.run                                           *)
(***************************************************************************)
Init ==
  /\ positions = EmptyDict
  /\ active_symbols \in (SUBSET Symbols) \ {{}}
  /\ streak_losses = [s \in active_symbols |-> 0]
  /\ freeze_paper_entries = FALSE
  /\ freeze_streak_updates = FALSE
  /\ trigger_symbol = None
  /\ last_trade_ts = EmptyDict
  /\ trade_counts_hour = <<>>
  /\ paper_log = NoRow
  /\ last_price = EmptyDict
  /\ stop_event = FALSE
  /\ LIVE_ENABLED \in BOOLEAN
  /\ COOLDOWN_AFTER_TRADE_SEC = 0
  /\ MAX_TRADES_PER_HOUR = 100000
  /\ EMERGENCY_CLOSE_ON_HARD_TIMEOUT = FALSE
  /\ pc = "idle"
  /\ lv = NoLocals
  /\ open_positions = EmptyDict
  /\ venue_pos = [s \in Symbols |-> Flat]
  /\ venue_orders = {}
  /\ now = 0
  /\ nTicks = 0 /\ nCalls = 0 /\ nResets = 0 /\ nLiveOpened = 0
  /\ nWatchReturned = 0
  /\ ret = NoRet
  /\ NoWs
  /\ NoUniverse
  /\ NoSignals

Next ==
  \/ \E symbol \in Symbols, price \in Prices, sig \in Sigs :
       _handle_trade_tick(symbol, price, sig)
  \/ DeviationGuard
  \/ OpenLiveCapacity
  \/ OpenLivePrepare
  \/ OpenLiveOrder
  \/ OpenLiveConfirm
  \/ OpenLiveBrackets
  \/ paper_timeout_loop
  \/ \E syms \in SUBSET Symbols : universe_loop(syms)
  \/ AdvanceTime
  \/ \E symbol \in Symbols : VenueExternalClose(symbol)

Spec == Init /\ [][Next]_vars

(***************************************************************************)
(* The LiveEngine under its callers: the system is armed (the state the    *)
(* handler is in when it reaches line 1311) and the methods are called in  *)
(* any order.                                                              *)
(***************************************************************************)
InitLive ==
  /\ positions = EmptyDict
  /\ active_symbols = Symbols
  /\ trigger_symbol \in Symbols
  /\ streak_losses = [s \in Symbols |->
                        IF s = trigger_symbol THEN LOSS_STREAK_TO_ARM ELSE 0]
  /\ freeze_paper_entries = TRUE
  /\ freeze_streak_updates = TRUE
  /\ last_trade_ts = EmptyDict
  /\ trade_counts_hour = <<>>
  /\ paper_log = NoRow
  /\ last_price \in [{trigger_symbol} -> Prices]
  /\ stop_event = FALSE
  /\ LIVE_ENABLED = TRUE
  /\ COOLDOWN_AFTER_TRADE_SEC = 0
  /\ MAX_TRADES_PER_HOUR = 100000
  /\ EMERGENCY_CLOSE_ON_HARD_TIMEOUT \in BOOLEAN
  /\ pc = "idle"
  /\ lv = NoLocals
  /\ open_positions = EmptyDict
  /\ venue_pos = [s \in Symbols |-> Flat]
  /\ venue_orders = {}
  /\ now = 0
  /\ nTicks = 0 /\ nCalls = 0 /\ nResets = 0 /\ nLiveOpened = 0
  /\ nWatchReturned = 0
  /\ ret = NoRet
  /\ NoWs
  /\ NoUniverse
  /\ NoSignals

NextLive ==
  \/ \E symbol \in Symbols, side \in Sides, px \in Prices :
       call_open_live(symbol, side, px)
  \/ \E symbol \in Symbols : call_watch_until_close(symbol)
  \/ \E symbol \in Symbols : call_reconcile_position(symbol)
  \/ \E symbol \in Symbols : call_close_live_market(symbol, "TIMEOUT")
  \/ OpenLiveCapacity
  \/ OpenLivePrepare
  \/ OpenLiveOrder
  \/ OpenLiveConfirm
  \/ OpenLiveBrackets
  \/ WatchPoll
  \/ WatchTrades
  \/ WatchSettle
  \/ CloseReconcile
  \/ CloseOrder
  \/ CloseConfirm
  \/ AdvanceTime
  \/ SetStop
  \/ Shutdown
  \/ \E symbol \in Symbols : VenueExternalClose(symbol)

SpecLive == InitLive /\ [][NextLive]_vars


(***************************************************************************)
(* LiveEngine.reconcile_position on its own: the local table and the       *)
(* venue's positions are drawn independently (a local entry as open_live   *)
(* writes it, lines 873-880), then the method is called on any symbol, and *)
(* the venue may close positions in between.                               *)
(***************************************************************************)
MaxQty == 2

\* the entries open_live can write for a symbol, and no entry
LocalEntries ==
  {[side |-> sd, qty |-> q, entry |-> 100, order_id_entry |-> "E",
    tp_order_id |-> "", sl_order_id |-> ""] : sd \in Sides, q \in 1..MaxQty}

\* the positions the venue can report for a symbol
VenuePositions ==
  {Flat} \cup {[amt |-> a, entry |-> e] :
                 a \in (-MaxQty..MaxQty) \ {0}, e \in {100, 101}}

InitReconcile ==
  /\ positions = EmptyDict
  /\ active_symbols = Symbols
  /\ trigger_symbol = "A"
  /\ streak_losses = [s \in Symbols |->
                        IF s = trigger_symbol THEN LOSS_STREAK_TO_ARM ELSE 0]
  /\ freeze_paper_entries = TRUE
  /\ freeze_streak_updates = TRUE
  /\ last_trade_ts = EmptyDict
  /\ trade_counts_hour = <<>>
  /\ paper_log = NoRow
  /\ last_price = EmptyDict
  /\ stop_event = FALSE
  /\ LIVE_ENABLED = TRUE
  /\ COOLDOWN_AFTER_TRADE_SEC = 0
  /\ MAX_TRADES_PER_HOUR = 100000
  /\ EMERGENCY_CLOSE_ON_HARD_TIMEOUT = FALSE
  /\ pc = "idle"
  /\ lv = NoLocals
  /\ \E held \in SUBSET Symbols : open_positions \in [held -> LocalEntries]
  /\ venue_pos \in [Symbols -> VenuePositions]
  /\ venue_orders = {}
  /\ now = 0
  /\ nTicks = 0 /\ nCalls = 0 /\ nResets = 0 /\ nLiveOpened = 0
  /\ nWatchReturned = 0
  /\ ret = NoRet
  /\ NoWs
  /\ NoUniverse
  /\ NoSignals

NextReconcile ==
  \/ \E symbol \in Symbols : call_reconcile_position(symbol)
  \/ \E symbol \in Symbols : VenueExternalClose(symbol)

SpecReconcile == InitReconcile /\ [][NextReconcile]_vars

(***************************************************************************)
(* The paper side of the program on its own, under every Config of the     *)
(* entry gate: LIVE_ENABLED = false, the cooldown and the hourly limit     *)
(* drawn, and the ws task, the sweeper and the clock running.              *)
(***************************************************************************)
\* the values of COOLDOWN_AFTER_TRADE_SEC: off, and two that can elapse
Cooldowns == {0, 1, 2}

\* the values of MAX_TRADES_PER_HOUR: 0, limits a run can reach, the default
HourlyLimits == {0, 1, 2, 100000}

InitPaper ==
  /\ positions = EmptyDict
  /\ active_symbols = Symbols
  /\ streak_losses = [s \in active_symbols |-> 0]
  /\ freeze_paper_entries = FALSE
  /\ freeze_streak_updates = FALSE
  /\ trigger_symbol = None
  /\ last_trade_ts = EmptyDict
  /\ trade_counts_hour = <<>>
  /\ paper_log = NoRow
  /\ last_price = EmptyDict
  /\ stop_event = FALSE
  /\ LIVE_ENABLED = FALSE
  /\ COOLDOWN_AFTER_TRADE_SEC \in Cooldowns
  /\ MAX_TRADES_PER_HOUR \in HourlyLimits
  /\ EMERGENCY_CLOSE_ON_HARD_TIMEOUT = FALSE
  /\ pc = "idle"
  /\ lv = NoLocals
  /\ open_positions = EmptyDict
  /\ venue_pos = [s \in Symbols |-> Flat]
  /\ venue_orders = {}
  /\ now = 0
  /\ nTicks = 0 /\ nCalls = 0 /\ nResets = 0 /\ nLiveOpened = 0
  /\ nWatchReturned = 0
  /\ ret = NoRet
  /\ NoWs
  /\ NoUniverse
  /\ NoSignals

NextPaper ==
  \/ \E symbol \in Symbols, price \in Prices, sig \in Sigs :
       _handle_trade_tick(symbol, price, sig)
  \/ DeviationGuard
  \/ paper_timeout_loop
  \/ AdvanceTime

SpecPaper == InitPaper /\ [][NextPaper]_vars

\* The same tasks on a universe of one symbol under the default Config of
\* the entry gate, with the scheduling of the sweeper: paper_timeout_loop is
\* a task of its own (line 1501) that wakes every 2 s for as long as
\* stop_event is not set, so a sweep that stays due is made.  Nothing is
\* assumed of the ticks or of the clock.
InitSweep ==
  /\ positions = EmptyDict
  /\ active_symbols = {"A"}
  /\ streak_losses = [s \in active_symbols |-> 0]
  /\ freeze_paper_entries = FALSE
  /\ freeze_streak_updates = FALSE
  /\ trigger_symbol = None
  /\ last_trade_ts = EmptyDict
  /\ trade_counts_hour = <<>>
  /\ paper_log = NoRow
  /\ last_price = EmptyDict
  /\ stop_event = FALSE
  /\ LIVE_ENABLED = FALSE
  /\ COOLDOWN_AFTER_TRADE_SEC = 0
  /\ MAX_TRADES_PER_HOUR = 100000
  /\ EMERGENCY_CLOSE_ON_HARD_TIMEOUT = FALSE
  /\ pc = "idle"
  /\ lv = NoLocals
  /\ open_positions = EmptyDict
  /\ venue_pos = [s \in Symbols |-> Flat]
  /\ venue_orders = {}
  /\ now = 0
  /\ nTicks = 0 /\ nCalls = 0 /\ nResets = 0 /\ nLiveOpened = 0
  /\ nWatchReturned = 0
  /\ ret = NoRet
  /\ NoWs
  /\ NoUniverse
  /\ NoSignals

\* The ws stream on its own: ws_loop, the handlers it awaits and the
\* watchdog, against a venue that sends frames, under every WS_MODE and
\* WS_BASE.
InitWs ==
  /\ positions = EmptyDict
  /\ active_symbols = Symbols
  /\ streak_losses = [s \in active_symbols |-> 0]
  /\ freeze_paper_entries = FALSE
  /\ freeze_streak_updates = FALSE
  /\ trigger_symbol = None
  /\ last_trade_ts = EmptyDict
  /\ trade_counts_hour = <<>>
  /\ paper_log = NoRow
  /\ last_price = EmptyDict
  /\ stop_event = FALSE
  /\ LIVE_ENABLED = TRUE
  /\ COOLDOWN_AFTER_TRADE_SEC = 0
  /\ MAX_TRADES_PER_HOUR = 100000
  /\ EMERGENCY_CLOSE_ON_HARD_TIMEOUT = FALSE
  /\ pc = "idle"
  /\ lv = NoLocals
  /\ open_positions = EmptyDict
  /\ venue_pos = [s \in Symbols |-> Flat]
  /\ venue_orders = {}
  /\ now = 0
  /\ nTicks = 0 /\ nCalls = 0 /\ nResets = 0 /\ nLiveOpened = 0
  /\ nWatchReturned = 0
  /\ ret = NoRet
  /\ WS_MODE \in WsModes /\ WS_BASE \in WsBases
  /\ _ws = None /\ _ws_close_sent = FALSE
  /\ ws_reconnect_requested = FALSE
  /\ last_ws_msg_ts = 0
  /\ ws_pc = "top" /\ ws_wake = 0
  /\ handling = <<>> /\ handled = <<>>
  /\ stale_hits = 0 /\ wd_wake = 1
  /\ sock = "none" /\ inbox = <<>> /\ nSent = 0
  /\ nReq = 0 /\ nClose = 0
  /\ NoUniverse
  /\ NoSignals

NextWs ==
  \/ ws_loop_top
  \/ ws_loop_connect
  \/ ws_loop_recv
  \/ handler_returns
  \/ ws_loop_exit
  \/ ws_loop_wake
  \/ ws_watchdog_loop
  \/ \E kind \in FrameKinds : VenueSend(kind)
  \/ WsAdvanceTime

SpecWs == InitWs /\ [][NextWs]_vars

\* The universe builder on its own, under every Config of the sets above
InitUniverse ==
  /\ positions = EmptyDict
  /\ active_symbols = Symbols
  /\ streak_losses = [s \in active_symbols |-> 0]
  /\ freeze_paper_entries = FALSE
  /\ freeze_streak_updates = FALSE
  /\ trigger_symbol = None
  /\ last_trade_ts = EmptyDict
  /\ trade_counts_hour = <<>>
  /\ paper_log = NoRow
  /\ last_price = EmptyDict
  /\ stop_event = FALSE
  /\ LIVE_ENABLED = TRUE
  /\ COOLDOWN_AFTER_TRADE_SEC = 0
  /\ MAX_TRADES_PER_HOUR = 100000
  /\ EMERGENCY_CLOSE_ON_HARD_TIMEOUT = FALSE
  /\ pc = "idle"
  /\ lv = NoLocals
  /\ open_positions = EmptyDict
  /\ venue_pos = [s \in Symbols |-> Flat]
  /\ venue_orders = {}
  /\ now = 0
  /\ nTicks = 0 /\ nCalls = 0 /\ nResets = 0 /\ nLiveOpened = 0
  /\ nWatchReturned = 0
  /\ ret = NoRet
  /\ NoWs
  /\ SYMBOL_MODE \in SymbolModes
  /\ WHITELIST \in Whitelists
  /\ BLACKLIST \in Blacklists
  /\ SKIP_SYMBOLS \in SkipLists
  /\ TARGET_SYMBOLS \in Targets
  /\ AUTO_TOP_N \in AutoTopNs
  /\ WHITELIST_PRIORITY \in BOOLEAN
  /\ universe_syms = <<>> /\ activeSymbols = <<>>
  /\ NoSignals

NextUniverse ==
  \/ call_build_universe
  \/ call_build_universe_once

SpecUniverse == InitUniverse /\ [][NextUniverse]_vars

\* The SignalEngine on its own: ticks of one symbol, and signal_side called
\* with every atr_pct and spread_pct, under both values of
\* BREAKOUT_BUFFER_PCT
InitSignal ==
  /\ positions = EmptyDict
  /\ active_symbols = {"A"}
  /\ streak_losses = [s \in active_symbols |-> 0]
  /\ freeze_paper_entries = FALSE
  /\ freeze_streak_updates = FALSE
  /\ trigger_symbol = None
  /\ last_trade_ts = EmptyDict
  /\ trade_counts_hour = <<>>
  /\ paper_log = NoRow
  /\ last_price = EmptyDict
  /\ stop_event = FALSE
  /\ LIVE_ENABLED = TRUE
  /\ COOLDOWN_AFTER_TRADE_SEC = 0
  /\ MAX_TRADES_PER_HOUR = 100000
  /\ EMERGENCY_CLOSE_ON_HARD_TIMEOUT = FALSE
  /\ pc = "idle"
  /\ lv = NoLocals
  /\ open_positions = EmptyDict
  /\ venue_pos = [s \in Symbols |-> Flat]
  /\ venue_orders = {}
  /\ now = 0
  /\ nTicks = 0 /\ nCalls = 0 /\ nResets = 0 /\ nLiveOpened = 0
  /\ nWatchReturned = 0
  /\ ret = NoRet
  /\ NoWs
  /\ NoUniverse
  /\ ticks = EmptyDict
  /\ BREAKOUT_BUFFER_PCT \in BreakoutBuffers
  /\ signal = NoSignalCall

NextSignal ==
  \/ \E symbol \in Symbols, price \in TickPrices : update(symbol, price)
  \/ \E symbol \in Symbols, atr_pct \in Percents, spread_pct \in Percents :
       call_signal_side(symbol, atr_pct, spread_pct)
  \/ AdvanceTime

SpecSignal == InitSignal /\ [][NextSignal]_vars

SpecSweepFair ==
  InitSweep /\ [][NextPaper]_vars /\ WF_vars(paper_timeout_loop)

(***************************************************************************)
(* The claims.                                                             *)
(***************************************************************************)
\* the handler is inside LiveEngine.open_live
OpenLivePcs == {"ol_cap", "ol_prep", "ol_order", "ol_confirm", "ol_cancel"}
\* the handler is inside the frozen branch, lines 1295-1324
LiveBranchPcs == OpenLivePcs \cup {"dev", "w_poll", "w_trades", "w_cancel",
                                   "cl_rec", "cl_order", "cl_confirm"}

\* C1 (live singleton): LiveEngine.open_positions never holds more than
\* LIVE_MAX_POSITIONS entries, after any sequence of calls of open_live,
\* reconcile_position, close_live_market and watch_until_close.
C1_LiveSingleton == Cardinality(DOMAIN open_positions) <= LIVE_MAX_POSITIONS

\* C2 (trigger exclusivity): the handler is in its live branch only for the
\* trigger symbol, while frozen and while Paper holds no position on it; and
\* a tick with a signal on another symbol while frozen ends in the handler
\* without a live action and without a new paper position.
C2_TriggerExclusivity ==
  /\ [](pc \in LiveBranchPcs =>
          /\ freeze_paper_entries
          /\ lv.symbol = trigger_symbol
          /\ lv.symbol \notin DOMAIN positions)
  /\ [][(freeze_paper_entries /\ nTicks' = nTicks + 1) =>
          \A symbol \in Symbols \ {trigger_symbol} :
            \A price \in Prices, sig \in Sides :
              _handle_trade_tick(symbol, price, sig)
              => /\ pc' = "idle"
                 /\ open_positions' = open_positions
                 /\ venue_pos' = venue_pos
                 /\ DOMAIN positions' \subseteq DOMAIN positions]_vars

\* a tick on the trigger symbol went into the live branch while the other
\* symbol is active too
C2_Witness ==
  /\ pc = "ol_order"
  /\ freeze_paper_entries
  /\ lv.symbol = trigger_symbol
  /\ active_symbols = Symbols

\* C3 (arm predicate): a step in which a paper close brings the streak of s
\* to LOSS_STREAK_TO_ARM or more, starting not frozen, ends with both freeze
\* flags set and trigger_symbol = s.
C3_ArmPredicate ==
  [][\A s \in Symbols :
       ( /\ ~freeze_paper_entries
         /\ s \in DOMAIN streak_losses'
         /\ streak_losses'[s] >= LOSS_STREAK_TO_ARM
         /\ Get(streak_losses, s, 0) # streak_losses'[s] )
       => /\ freeze_paper_entries'
          /\ freeze_streak_updates'
          /\ trigger_symbol' = s]_vars

\* the second consecutive losing close on s armed on s
C3_Witness ==
  \E s \in Symbols :
    /\ s \in DOMAIN streak_losses
    /\ streak_losses[s] = LOSS_STREAK_TO_ARM
    /\ freeze_paper_entries
    /\ freeze_streak_updates
    /\ trigger_symbol = s
    /\ s \notin DOMAIN positions

\* C4 (freeze monotonicity): a step that starts or ends frozen opens no
\* paper position and changes none; the step of the reset included.
C4_FreezeMonotonicity ==
  [][(freeze_paper_entries \/ freeze_paper_entries') =>
       \A s \in DOMAIN positions' :
         s \in DOMAIN positions /\ positions'[s] = positions[s]]_vars

\* frozen with a paper position still open on the other symbol, and a
\* signal tick on the trigger symbol was handled without a paper open
C4_Witness ==
  /\ freeze_paper_entries
  /\ pc = "dev"
  /\ positions # EmptyDict
  /\ lv.symbol \notin DOMAIN positions

\* C5 (reset atomicity): the step that runs reset_all_streaks ends with a
\* zero streak for every symbol of the table and of active_symbols, both
\* freeze flags false and no trigger symbol.
C5_ResetAtomicity ==
  [][nResets' = nResets + 1 =>
       /\ \A s \in DOMAIN streak_losses \cup active_symbols :
            s \in DOMAIN streak_losses' /\ streak_losses'[s] = 0
       /\ ~freeze_paper_entries'
       /\ ~freeze_streak_updates'
       /\ trigger_symbol' = None]_vars

\* the reset has run and cleared an armed system
C5_Witness ==
  /\ nResets > 0
  /\ ~freeze_paper_entries
  /\ ~freeze_streak_updates
  /\ trigger_symbol = None
  /\ \A s \in DOMAIN streak_losses : streak_losses[s] = 0

\* C6 (reset once per live position): with LIVE_ENABLED the reset runs only
\* after a watch has returned, and when the handler is back at rest it has
\* run once for each live position opened.
C6_ResetOncePerLivePosition ==
  LIVE_ENABLED =>
    /\ nResets <= nWatchReturned
    /\ (pc = "idle" => nResets = nLiveOpened)

\* C7 (CloseFailed keeps the freeze): when the close of the watched live
\* position has ended under the handler with the order raising, or with the
\* venue position still non-flat, the system is still frozen.
C7_CloseFailedKeepsFrozen ==
  ( /\ ret.op = "close_live_market"
    /\ ret.tail
    /\ (~ret.ok \/ venue_pos[ret.symbol].amt # 0) )
  => /\ freeze_paper_entries
     /\ freeze_streak_updates
     /\ trigger_symbol # None

\* C8 (open_live failure keeps the freeze): the step in which open_live
\* ends raising leaves every field of Paper as it was, frozen, with no
\* reset and with the handler returned (no watch).
C8_OpenLiveFailureKeepsFreeze ==
  [][( /\ pc \in OpenLivePcs
       /\ pc' \notin OpenLivePcs
       /\ ret'.op = "open_live" /\ ~ret'.ok )
     => /\ UNCHANGED paperVars
        /\ freeze_paper_entries'
        /\ trigger_symbol' = lv.symbol
        /\ nResets' = nResets
        /\ pc' = "idle"]_vars

\* open_live raised because the quantity is below minQty, and the system
\* is still frozen on the symbol
C8_Witness ==
  /\ ret.op = "open_live" /\ ~ret.ok /\ ret.why = "MinQty"
  /\ pc = "idle"
  /\ freeze_paper_entries
  /\ trigger_symbol = ret.symbol

\* C9 (close confirmation): when close_live_market has returned its result
\* for symbol s, the venue's position on s is flat.
C9_CloseConfirmation ==
  (ret.op = "close_live_market" /\ ret.ok) => venue_pos[ret.symbol].amt = 0

WatchPcs == {"w_poll", "w_trades", "w_cancel", "cl_order", "cl_confirm"}

\* C11 (shutdown): a step that ends the handler's watch while stop_event is
\* set, by return or by cancellation, leaves the venue position of the
\* watched symbol flat.
C11_ShutdownForceExit ==
  [][( /\ stop_event
       /\ pc \in WatchPcs
       /\ lv.cont = "tail"
       /\ pc' \in {"idle", "cancelled"} )
     => venue_pos'[lv.symbol].amt = 0]_vars

\* C12 (hard timeout): when the close that the watch starts at the hard
\* timeout has returned, the venue position is flat and the trade's reason
\* is TIMEOUT_HARD.
C12_HardTimeout ==
  (ret.op = "close_live_market" /\ ret.tail /\ ret.ok)
  => /\ ret.why = "TIMEOUT_HARD"
     /\ venue_pos[ret.symbol].amt = 0

\* C13 (profit timeout): a poll of the watch at or after
\* t0 + WATCH_PROFIT_TIMEOUT_SEC that finds the position still open, with a
\* positive pnl at the last tick price, starts a market close with reason
\* TIMEOUT_PROFIT (the hard timeout set not to close).
C13_ProfitTimeout ==
  [][( /\ WatchPoll
       /\ ~EMERGENCY_CLOSE_ON_HARD_TIMEOUT
       /\ (now - lv.t0) >= WATCH_PROFIT_TIMEOUT_SEC
       /\ lv.symbol \in DOMAIN open_positions'
       /\ lv.symbol \in DOMAIN last_price
       /\ lv.price > 0
       /\ IF lv.side = "LONG" THEN last_price[lv.symbol] > lv.price
                              ELSE last_price[lv.symbol] < lv.price )
     => /\ pc' = "cl_order"
        /\ lv'.reason = "TIMEOUT_PROFIT"]_vars

\* C14 (flat-position settlement): when the watch has returned without a
\* stop, the local position is dropped, the exit trade is not the entry
\* order, and the reason is TP_EXCHANGE, SL_EXCHANGE or
\* CLOSE_UNKNOWN_OR_STOP_FILLED.
C14_FlatSettlement ==
  (ret.op = "watch_until_close" /\ ~stop_event)
  => /\ ret.symbol \notin DOMAIN open_positions
     /\ ret.order_id_exit # "E"
     /\ ret.why \in {"TP_EXCHANGE", "SL_EXCHANGE",
                     "CLOSE_UNKNOWN_OR_STOP_FILLED"}

C16_QuantitySafety ==
  pc = "ol_order" =>
    /\ lv.qty = LiveQty(lv.price)
    /\ lv.qty >= MinQtySteps(lv.symbol)
    /\ lv.qty * lv.price * LIVE_LEVERAGE >= MinNotional * StepSizeInv

\* the reasons a paper close is called with, and one the code does not use
CloseReasons == {"SL", "TP", "TIMEOUT", "MANUAL"}

\* C17 (paper singleton): the handler opens a paper position only on a
\* symbol that holds none after its close-on-price, and a step that leaves a
\* symbol with another position than it had is a tick on that symbol whose
\* close-on-price closed the old one first.
C17_PaperSingleton ==
  /\ [](\A symbol \in Symbols, price \in Prices, sig \in Sides :
          LET P1 == maybe_close_on_price(Paper, symbol, price, now)
          IN route(P1, symbol, sig) = "open" =>
               symbol \notin DOMAIN P1.positions)
  /\ [][\A s \in DOMAIN positions \cap DOMAIN positions' :
          positions'[s] # positions[s] =>
            \E price \in Prices, sig \in Sides :
              /\ _handle_trade_tick(s, price, sig)
              /\ s \notin DOMAIN
                   maybe_close_on_price(Paper, s, price, now).positions]_vars

\* a symbol still holds the position it opened although later ticks came in
\* on it at the same price: none of them opened over it
C17_Witness ==
  \E s \in Symbols :
    /\ s \in DOMAIN positions
    /\ DOMAIN last_price = {s}
    /\ nTicks = MaxTicks
    /\ positions[s].entry = last_price[s]
    /\ positions[s].opened_ts = 0
    /\ paper_log = NoRow

\* C18 (streak update rule): with freeze_streak_updates false, a close of
\* the position on s sets the streak of s to previous + 1 for SL, to 0 for
\* TP, and for any other reason to previous + 1 if the pnl is negative and
\* to 0 otherwise; the streaks of the other symbols stay as they are.
C18_StreakUpdateRule ==
  ~freeze_streak_updates =>
    \A s \in DOMAIN positions, px \in Prices, reason \in CloseReasons :
      LET P1 == close(Paper, s, px, reason)
          prev == Get(streak_losses, s, 0)
          pnl == _pnl_pct(positions[s], px)
      IN /\ DOMAIN P1.streak_losses = DOMAIN streak_losses \cup {s}
         /\ P1.streak_losses[s] =
              (CASE reason = "SL" -> prev + 1
                 [] reason = "TP" -> 0
                 [] OTHER -> IF pnl < 0 THEN prev + 1 ELSE 0)
         /\ \A o \in DOMAIN streak_losses \ {s} :
              P1.streak_losses[o] = streak_losses[o]

\* the last paper close was a TP on a symbol that had a losing streak
\* before, and the streak of the symbol is 0 while another symbol keeps its
\* streak of 1
C18_Witness ==
  /\ ~freeze_streak_updates
  /\ nResets = 0
  /\ paper_log.reason = "TP"
  /\ paper_log.symbol \in DOMAIN streak_losses
  /\ streak_losses[paper_log.symbol] = 0
  /\ \E o \in DOMAIN streak_losses : streak_losses[o] = 1

\* C19 as the spec states it: with freeze_streak_updates false, a TIMEOUT
\* close with a non-positive pnl increases the streak by 1.
C19_NonPositiveTimeoutCounts ==
  ~freeze_streak_updates =>
    \A s \in DOMAIN positions, px \in Prices :
      _pnl_pct(positions[s], px) <= 0 =>
        close(Paper, s, px, "TIMEOUT").streak_losses[s]
          = Get(streak_losses, s, 0) + 1

\* C19 (streak semantics of timeouts) as the code has it: with
\* freeze_streak_updates false, a TIMEOUT close increases the streak by 1
\* when the pnl is negative and resets it to 0 when the pnl is zero or
\* positive.
C19_TimeoutStreak ==
  ~freeze_streak_updates =>
    \A s \in DOMAIN positions, px \in Prices :
      close(Paper, s, px, "TIMEOUT").streak_losses[s]
        = (IF _pnl_pct(positions[s], px) < 0
           THEN Get(streak_losses, s, 0) + 1 ELSE 0)

\* the last paper close was a TIMEOUT at zero pnl, not frozen, and the
\* streak of its symbol is 0
C19_Witness ==
  /\ ~freeze_streak_updates
  /\ nResets = 0
  /\ paper_log.reason = "TIMEOUT"
  /\ paper_log.pnl = 0
  /\ streak_losses[paper_log.symbol] = 0

\* C20 (no streak updates while frozen): with freeze_streak_updates set, a
\* close of any position for any reason removes the position and writes the
\* CLOSE row, and leaves the streak table, both freeze flags and the
\* trigger symbol as they are; and no step before the reset changes a
\* streak, a freeze flag or the trigger symbol.
C20_FrozenNoStreakUpdates ==
  /\ [](freeze_streak_updates =>
          \A s \in DOMAIN positions, px \in Prices, reason \in CloseReasons :
            LET P1 == close(Paper, s, px, reason)
            IN /\ s \notin DOMAIN P1.positions
               /\ P1.paper_log.symbol = s /\ P1.paper_log.reason = reason
               /\ P1.streak_losses = streak_losses
               /\ P1.freeze_paper_entries = freeze_paper_entries
               /\ P1.freeze_streak_updates
               /\ P1.trigger_symbol = trigger_symbol)
  /\ [][(freeze_streak_updates /\ nResets' = nResets) =>
          /\ \A s \in DOMAIN streak_losses :
               s \in DOMAIN streak_losses'
               /\ streak_losses'[s] = streak_losses[s]
          /\ freeze_paper_entries' = freeze_paper_entries
          /\ freeze_streak_updates'
          /\ trigger_symbol' = trigger_symbol]_vars

\* frozen, not yet reset, and the last CLOSE row is of another symbol than
\* the trigger symbol: that position was closed after the arm
C20_Witness ==
  /\ freeze_streak_updates
  /\ nResets = 0
  /\ paper_log.symbol \in Symbols \ {trigger_symbol}
  /\ paper_log.symbol \in DOMAIN streak_losses
  /\ positions = EmptyDict

\* the opens of the last hour, as _can_open counts them
opens_last_hour == Len(prune(trade_counts_hour, now))

\* the preconditions of _can_open other than the hourly limit
other_preconditions(symbol) ==
  /\ ~freeze_paper_entries
  /\ symbol \notin DOMAIN positions
  /\ now - Get(last_trade_ts, symbol, 0) >= COOLDOWN_AFTER_TRADE_SEC

\* C26 (hourly limit): _can_open is false when the opens of the last hour
\* have reached a positive MAX_TRADES_PER_HOUR, and with MAX_TRADES_PER_HOUR
\* = 0 (unlimited) and every other precondition met _can_open is true
\* whatever the number of opens.
C26_HourlyLimit ==
  \A symbol \in Symbols :
    /\ (MAX_TRADES_PER_HOUR > 0 /\ opens_last_hour >= MAX_TRADES_PER_HOUR)
         => ~_can_open(Paper, symbol)
    /\ (MAX_TRADES_PER_HOUR = 0 /\ other_preconditions(symbol))
         => _can_open(Paper, symbol)

\* C27 (cooldown): with a cooldown configured, at the instant a tick closes
\* the paper position on s no time has elapsed since that close, so
\* _can_open(s) is false on the engine the close leaves.
C27_Cooldown ==
  \A symbol \in DOMAIN positions, price \in Prices :
    LET P1 == maybe_close_on_price(Paper, symbol, price, now)
    IN (COOLDOWN_AFTER_TRADE_SEC > 0 /\ symbol \notin DOMAIN P1.positions)
         => ~_can_open(P1, symbol)

\* the close triggers of the spec for the position pos at a tick price
tp_reached(pos, price) ==
  IF pos.side = "LONG" THEN price * 1000 >= pos.tp ELSE price * 1000 <= pos.tp
sl_reached(pos, price) ==
  IF pos.side = "LONG" THEN price * 1000 <= pos.sl ELSE price * 1000 >= pos.sl
age_reached(pos) ==
  MAX_HOLDING_SEC > 0 /\ now - pos.opened_ts >= MAX_HOLDING_SEC

\* C30 (close priority on a tick): maybe_close_on_price closes a held
\* position with reason TP when the TP is reached, whatever its age; with
\* reason SL when the SL and not the TP is reached, whatever its age; with
\* reason TIMEOUT only when neither is reached and the age is; and not at
\* all otherwise.  A close removes the position and writes one CLOSE row,
\* and a second call on the same tick closes nothing more.
C30_ClosePriority ==
  \A symbol \in DOMAIN positions, price \in Prices :
    LET pos == positions[symbol]
        P1 == maybe_close_on_price(Paper, symbol, price, now)
        reason == CASE tp_reached(pos, price) -> "TP"
                    [] sl_reached(pos, price) -> "SL"
                    [] age_reached(pos) -> "TIMEOUT"
                    [] OTHER -> None
    IN /\ reason = None => P1 = Paper
       /\ reason # None =>
            /\ symbol \notin DOMAIN P1.positions
            /\ P1.positions = Pop(positions, symbol)
            /\ P1.paper_log.symbol = symbol
            /\ P1.paper_log.reason = reason
            /\ P1 = close(Paper, symbol, price, reason)
       /\ maybe_close_on_price(P1, symbol, price, now) = P1

\* a held position is past MAX_HOLDING_SEC and not yet swept, a tick can
\* still come in, and among the tick prices one reaches its TP and one its
\* SL: the ticks on which the triggers compete
C30_Witness ==
  /\ pc = "idle" /\ nTicks < MaxTicks
  /\ \E symbol \in DOMAIN positions :
       /\ symbol \in active_symbols
       /\ age_reached(positions[symbol])
       /\ \E price \in Prices : tp_reached(positions[symbol], price)
       /\ \E price \in Prices : sl_reached(positions[symbol], price)

\* C22 (one close per paper position): a close of a symbol that holds no
\* position changes nothing; when a tick has closed the position on s, the
\* sweeper working through a snapshot taken before that tick closes nothing
\* on s; and when the sweeper has closed s, the close-on-price of the next
\* tick on s closes nothing: whichever task comes second leaves the CLOSE
\* row, the streaks and the freeze flags as the first left them.
C22_SingleClose ==
  /\ \A symbol \in Symbols \ DOMAIN positions, px \in Prices,
        reason \in CloseReasons :
       close(Paper, symbol, px, reason) = Paper
  /\ \A symbol \in timed_out_symbols(Paper, now), price \in Prices :
       LET snapshot == timed_out_symbols(Paper, now)
           tick == maybe_close_on_price(Paper, symbol, price, now)
           lp == Put(last_price, symbol, price)
       IN /\ symbol \notin DOMAIN tick.positions
          /\ close_timeouts(tick, <<symbol>>, lp) = tick
          /\ \A order \in Orders(snapshot) :
               /\ close_timeouts(tick, order, lp)
                    = close_timeouts(tick, SelectSeq(order,
                                       LAMBDA x : x # symbol), lp)
               /\ LET sweep == close_timeouts(Paper, order, last_price)
                  IN maybe_close_on_price(sweep, symbol, price, now) = sweep

\* both symbols hold a position past MAX_HOLDING_SEC (the sweeper's
\* snapshot has two entries) and a tick can still come in on either
C22_Witness ==
  /\ pc = "idle" /\ nTicks < MaxTicks /\ ~stop_event
  /\ timed_out_symbols(Paper, now) = Symbols
  /\ active_symbols = Symbols
  /\ DOMAIN last_price = Symbols

\* C21 (deadline enforcement under tick silence): a held paper position
\* always has a tick price in last_price and is reported by
\* timed_out_symbols as soon as its age reaches MAX_HOLDING_SEC; a step that
\* removes positions without a tick is a sweep, which closes every reported
\* position and no other, with reason TIMEOUT; and a position whose age has
\* reached MAX_HOLDING_SEC is eventually closed (the symbol then holds
\* nothing or a younger position), whether or not another tick arrives.
C21_DeadlineEnforcement ==
  /\ [](\A s \in DOMAIN positions :
          /\ s \in DOMAIN last_price
          /\ now - positions[s].opened_ts >= MAX_HOLDING_SEC
               => s \in timed_out_symbols(Paper, now))
  /\ [][(nTicks' = nTicks /\ positions' # positions) =>
          /\ DOMAIN positions' = DOMAIN positions \ timed_out_symbols(Paper, now)
          /\ \A s \in DOMAIN positions' : positions'[s] = positions[s]
          /\ paper_log'.reason = "TIMEOUT"
          /\ paper_log'.symbol \in timed_out_symbols(Paper, now)]_vars
  /\ \A s \in Symbols :
       (s \in DOMAIN positions
          /\ now - positions[s].opened_ts >= MAX_HOLDING_SEC)
         ~> (s \notin DOMAIN positions
               \/ now - positions[s].opened_ts < MAX_HOLDING_SEC)

\* no position is held, the last CLOSE row is a TIMEOUT of a symbol whose
\* only tick was the one that opened its position (nTicks = 1): the sweeper
\* closed it in tick silence
C21_Witness ==
  /\ positions = EmptyDict
  /\ nTicks = 1
  /\ paper_log.reason = "TIMEOUT"
  /\ DOMAIN last_price = {paper_log.symbol}
  /\ now >= MAX_HOLDING_SEC


\* C23: within one stale episode (from one write of last_ws_msg_ts to the
\* next) the watchdog raises one reconnect request at most and sends one
\* close(4000, "stale") at most, also when the reconnect fails or is slow.
C23_OneRequestPerEpisode ==
  /\ nReq <= 1
  /\ nClose <= 1

\* C24: in COMBINED and in SUBSCRIBE mode (AUTO resolving to either) ws_loop
\* opens a connection, and in neither mode does it come round its loop
\* without yielding to the other tasks.
C24_BothWireVariants ==
  /\ ws_pc # "spin"
  /\ (ws_pc \in {"connect", "recv", "handler", "aexit"}
        => resolve_mode(WS_MODE, WS_BASE) \in {"COMBINED", "SUBSCRIBE"})

\* C25: tick handling is serialized in arrival order: no handler of a later
\* frame starts before the handler of an earlier frame has finished, also
\* when the earlier handler suspends on a gateway call.
C25_Serialized ==
  /\ Len(handling) <= 1
  /\ \A i, j \in 1..Len(handled) : i < j => handled[i] < handled[j]
  /\ \A i \in 1..Len(handled) : \A j \in 1..Len(handling) :
       handled[i] < handling[j]
  /\ (handling # <<>> => ws_pc = "handler")

\* a later trade frame has arrived while the handler of the earlier one is
\* suspended
C25_Witness ==
  /\ ws_pc = "handler"
  /\ Len(handling) = 1
  /\ inbox # <<>>
  /\ Head(inbox).kind = "trade"
  /\ Head(inbox).n > handling[1]


C29_AtMostTarget ==
  /\ Len(universe_syms) <= TARGET_SYMBOLS
  /\ Len(activeSymbols) <= TARGET_SYMBOLS


\* C34: while the system is frozen, ticks of trigger_symbol are still routed
\* to the handler: a universe refresh never takes trigger_symbol out of
\* active_symbols.
C34_TriggerStaysRouted ==
  freeze_paper_entries => trigger_symbol \in active_symbols

\* C35: the tick whose paper close arms the freeze never itself goes on to
\* the live branch of the handler; a live open needs a later tick.
C35_PromotionNeedsNewSignal ==
  [][(~freeze_paper_entries /\ freeze_paper_entries') => pc' = "idle"]_vars

\* C37: the handler goes from the deviation guard on to open_live only when
\* the book gave a valid bid and ask whose mid is within MAX_DEVIATION_PCT
\* of the tick price.
C37_GuardNotBypassed ==
  [][(pc = "dev" /\ pc' \in {"ol_cap", "ol_prep"})
     => \E bk \in Books :
          /\ ~bk.raise /\ bk.bid > 0 /\ bk.ask > 0
          /\ ~deviation_exceeds(lv.price, bk)]_vars

\* the tuple (freeze_paper_entries, freeze_streak_updates, trigger_symbol)
FreezeState == <<freeze_paper_entries, freeze_streak_updates, trigger_symbol>>

\* C39: freeze_paper_entries = freeze_streak_updates and trigger_symbol is
\* set iff the system is frozen, in every reachable state; the tuple only
\* goes from (false, false, none) to (true, true, s) in a close of s, and
\* from (true, true, s) to (false, false, none) in reset_all_streaks.
C39_FreezeConsistency ==
  /\ [](/\ freeze_paper_entries = freeze_streak_updates
        /\ (trigger_symbol # None <=> freeze_paper_entries))
  /\ [][FreezeState' # FreezeState
        => \/ /\ FreezeState = <<FALSE, FALSE, None>>
              /\ \E s \in DOMAIN positions \ DOMAIN positions' :
                   /\ FreezeState' = <<TRUE, TRUE, s>>
                   /\ paper_log' = CloseRow(s, paper_log'.reason, paper_log'.pnl)
           \/ /\ FreezeState[1] /\ FreezeState[2] /\ FreezeState[3] # None
              /\ FreezeState' = <<FALSE, FALSE, None>>
              /\ \A s \in DOMAIN streak_losses' : streak_losses'[s] = 0
              /\ nResets' = nResets + 1]_vars

\* the freeze was armed and a reset has cleared it
C39_Witness ==
  /\ nResets > 0
  /\ FreezeState = <<FALSE, FALSE, None>>
  /\ paper_log.symbol # None

\* C40: in every frozen state Paper holds no position on trigger_symbol.
C40_NoPaperPositionOnTrigger ==
  freeze_paper_entries => trigger_symbol \notin DOMAIN positions

\* frozen, with a paper position still open on another symbol
C40_Witness ==
  /\ freeze_paper_entries
  /\ trigger_symbol # None
  /\ DOMAIN positions # {}
  /\ trigger_symbol \notin DOMAIN positions


\* C32: once the entry order is on the venue, open_live ends only with both
\* bracket orders on the exchange (and the position watched) or with the
\* position closed again: when the handler has returned, no venue position
\* is without its two brackets.
C32_NoUnprotectedPosition ==
  \A s \in Symbols :
    (pc = "idle" /\ venue_pos[s].amt # 0)
      => /\ \E o \in venue_orders :
              o.symbol = s /\ o.type = "TAKE_PROFIT_MARKET"
         /\ \E o \in venue_orders :
              o.symbol = s /\ o.type = "STOP_MARKET"


\* C33: whenever LiveEngine removes its local position of a symbol (at the
\* end of watch_until_close, in close_live_market or in reconcile_position)
\* the venue's positionAmt of that symbol is 0.
C33_NeverForgetsOpenPosition ==
  [][\A s \in DOMAIN open_positions \ DOMAIN open_positions' :
       venue_pos'[s].amt = 0]_vars


\* C38: the sweeper closes only positions that are timed out.  A held
\* position always has a positive tick price in last_price, so the sweeper
\* never awaits a REST price between its snapshot and its close; every
\* position a sweep removes has reached MAX_HOLDING_SEC at that moment, and
\* a younger position (one re-opened by the tick path included) is left as
\* it is.
C38_SweeperOnlyTimedOut ==
  /\ [](\A s \in DOMAIN positions :
          s \in DOMAIN last_price /\ last_price[s] > 0)
  /\ [][(nTicks' = nTicks /\ positions' # positions) =>
          /\ \A s \in DOMAIN positions \ DOMAIN positions' :
               now - positions[s].opened_ts >= MAX_HOLDING_SEC
          /\ \A s \in DOMAIN positions :
               now - positions[s].opened_ts < MAX_HOLDING_SEC
                 => s \in DOMAIN positions' /\ positions'[s] = positions[s]]_vars

\* two ticks opened two positions; the sweeper has closed the older one by
\* TIMEOUT and the younger one is still held
C38_Witness ==
  /\ nTicks = 2
  /\ DOMAIN last_price = Symbols
  /\ paper_log.reason = "TIMEOUT"
  /\ paper_log.symbol \notin DOMAIN positions
  /\ \E s \in DOMAIN positions :
       now - positions[s].opened_ts < MAX_HOLDING_SEC


\* C36: the stream keeps being consumed while the handler is suspended in a
\* gateway call (the watch of a live position is the long one): while
\* frames of the open socket wait to be received, the watchdog does not
\* raise a reconnect request.
C36_StreamConsumedDuringWatch ==
  [][(ws_pc = "handler" /\ sock = "open" /\ inbox # <<>>)
     => (ws_reconnect_requested' => ws_reconnect_requested)]_vars


\* C31: signal_side returns LONG iff r >= +BREAKOUT_BUFFER_PCT and SHORT iff
\* r <= -BREAKOUT_BUFFER_PCT, each only with atr_pct known and >= MIN_ATR_PCT
\* and spread_pct known and <= MAX_SPREAD_PCT, None in every other case, and
\* LONG where both bounds are met (buffer 0, r = 0).
C31_SignalRule ==
  signal.called =>
    LET c == signal
        gates == /\ c.ret # <<>>
                 /\ c.atr_pct # <<>> /\ c.atr_pct[1] >= MIN_ATR_PCT
                 /\ c.spread_pct # <<>> /\ c.spread_pct[1] <= MAX_SPREAD_PCT
        long == gates /\ c.ret[1].num >= BREAKOUT_BUFFER_PCT * c.ret[1].den
        short == gates /\ c.ret[1].num <= -(BREAKOUT_BUFFER_PCT * c.ret[1].den)
    IN c.side = IF long THEN "LONG" ELSE IF short THEN "SHORT" ELSE None

=============================================================================
